---- MODULE Spec2Model ----
(***************************************************************************)
(* Dub Siren firmware: the real-time audio synthesis core.                 *)
(*                                                                         *)
(* Three execution contexts share one CPU: the control loop                *)
(* (UserInterfaceDoTasks), the compute interrupt (Timer1Interrupt, which   *)
(* runs AudioUpdate) and the output interrupt (Spi1TXInterrupt).           *)
(*                                                                         *)
(* Representation of the C float values:                                   *)
(*   - amplitudes, gains and filter coefficients are integers in units of  *)
(*     1/One; a product is rounded toward zero to that resolution;         *)
(*   - normalised periods (phases) and the LFO shape are integers in units *)
(*     of 1/PhaseOne, PhaseOne = SAMPLE_FREQUENCY, so that a phase step of *)
(*     frequency/SAMPLE_FREQUENCY is exact for a frequency in whole Hz;    *)
(*   - frequencies are whole Hz;                                           *)
(*   - delay times are integers in units of 1/TimeOne seconds.             *)
(***************************************************************************)
EXTENDS Integers, Sequences, FiniteSets, TLC

\* ------------------------------------------------------------------------
\* Program constants

SAMPLE_FREQUENCY == 96000

MAXIMUM_NUMBER_OF_CASCADED_FILTERS == 3

\* Interrupt priorities set by DacInitialise
T1IP == 5

SPI1TXIP == 6

\* Full scale of the 24-bit DAC code, 0x7FFFFF
DAC_FULL_SCALE == 8388607

\* Number of entries of the delay buffer (128000 in the firmware; the model
\* keeps the buffer as a state variable and checks a short one)
DELAY_BUFFER_SIZE == 4

\* ------------------------------------------------------------------------
\* Fixed-point representation

One == 16384

PhaseOne == SAMPLE_FREQUENCY

TimeOne == 2 * SAMPLE_FREQUENCY

\* 0.01 of a period per Hz of LFO frequency
PREEMPTIVE_GATE_PERIOD == PhaseOne \div 100

\* C integer division and float-to-int conversion round toward zero
TruncDiv(a, b) == IF a >= 0 THEN a \div b ELSE -((-a) \div b)

Abs(a) == IF a >= 0 THEN a ELSE -a

\* a * b for two values in units of 1/One, rounded toward zero; the product
\* is taken in two parts to stay in 32 bits
Mul(a, b) ==
    LET x == Abs(a)
        y == Abs(b)
        m == (x \div One) * y + ((x % One) * y) \div One
    IN  IF (a >= 0) = (b >= 0) THEN m ELSE -m

\* One * num / den for 0 <= num <= den, in two stages to stay in 32 bits
Ratio(num, den) ==
    LET q1 == (128 * num) \div den
        r1 == (128 * num) % den
    IN  q1 * (One \div 128) + (r1 * (One \div 128)) \div den

MIN(a, b) == IF a < b THEN a ELSE b

MAX(a, b) == IF a > b THEN a ELSE b

CLAMP(value, minValue, maxValue) == MIN(MAX(value, minValue), maxValue)

\* An unsigned int is kept as its 32-bit pattern: a pattern below 0 stands for
\* the value 2^32 above it. The comparison of two unsigned int values:
UnsignedLess(a, b) == IF (a >= 0) = (b >= 0) THEN a < b ELSE b < 0

\* MIN, MAX and CLAMP where typeof(a) is unsigned int: the macros cast their
\* other operands to that type and compare as unsigned
UnsignedMIN(a, b) == IF UnsignedLess(a, b) THEN a ELSE b

UnsignedMAX(a, b) == IF UnsignedLess(b, a) THEN a ELSE b

UnsignedCLAMP(value, minValue, maxValue) ==
    UnsignedMIN(UnsignedMAX(value, minValue), maxValue)

\* MAP(x, x1, x2, y1, y2) with x, x1, x2 in one unit and y1, y2 in another:
\* the macro divides first, then scales
MAP(x, x1, x2, y1, y2) ==
    LET ratio == TruncDiv((x - x1) * One, x2 - x1)
    IN  TruncDiv(ratio * (y2 - y1), One) + y1

\* ------------------------------------------------------------------------
\* Filters/FirstOrderFilter.c

\* M_PI as the rational PI_NUM / PI_DEN
PI_NUM == 22

PI_DEN == 7

ZeroFilter ==
    [isHighPass |-> FALSE, previousInput |-> 0, previousOutput |-> 0, coefficient |-> 0]

FirstOrderFilterSetCornerFrequency(firstOrderFilter, cornerFrequency, sampleFrequency, isHighPass) ==
    LET w == 2 * PI_NUM * cornerFrequency
        s == PI_DEN * sampleFrequency
    IN  [firstOrderFilter EXCEPT
            !.isHighPass = isHighPass,
            !.coefficient = IF isHighPass THEN Ratio(s, w + s) ELSE Ratio(w, s + w)]

\* The filter after one update; the value returned is its previousOutput
FirstOrderFilterUpdate(firstOrderFilter, input) ==
    LET out == IF firstOrderFilter.isHighPass
               THEN Mul(firstOrderFilter.coefficient,
                        firstOrderFilter.previousOutput + input - firstOrderFilter.previousInput)
               ELSE firstOrderFilter.previousOutput
                        + Mul(input - firstOrderFilter.previousOutput, firstOrderFilter.coefficient)
    IN  [firstOrderFilter EXCEPT !.previousInput = input, !.previousOutput = out]

\* ------------------------------------------------------------------------
\* Filters/CascadeFilter.c

ZeroCascade ==
    [numberOfFilters |-> 0,
     firstOrderFilter |-> [i \in 0 .. (MAXIMUM_NUMBER_OF_CASCADED_FILTERS - 1) |-> ZeroFilter]]

\* The stage count stored as asked for, without the CLAMP of line 25
CascadeFilterSetCornerFrequencyUnclamped(cascadeFilter, cornerFrequency, sampleFrequency, isHighPass, numberOfFilters) ==
    LET n == numberOfFilters
        first == FirstOrderFilterSetCornerFrequency(
                     cascadeFilter.firstOrderFilter[0], cornerFrequency, sampleFrequency, isHighPass)
    IN  [numberOfFilters |-> n,
         firstOrderFilter |->
            [i \in 0 .. (MAXIMUM_NUMBER_OF_CASCADED_FILTERS - 1) |->
                IF i = 0 THEN first
                ELSE IF UnsignedLess(i, n)
                     THEN [cascadeFilter.firstOrderFilter[i] EXCEPT
                              !.isHighPass = isHighPass, !.coefficient = first.coefficient]
                     ELSE cascadeFilter.firstOrderFilter[i]]]

\* numberOfFilters is an unsigned int
CascadeFilterSetCornerFrequency(cascadeFilter, cornerFrequency, sampleFrequency, isHighPass, numberOfFilters) ==
    LET n == UnsignedCLAMP(numberOfFilters, 1, MAXIMUM_NUMBER_OF_CASCADED_FILTERS)
        first == FirstOrderFilterSetCornerFrequency(
                     cascadeFilter.firstOrderFilter[0], cornerFrequency, sampleFrequency, isHighPass)
    IN  [numberOfFilters |-> n,
         firstOrderFilter |->
            [i \in 0 .. (MAXIMUM_NUMBER_OF_CASCADED_FILTERS - 1) |->
                IF i = 0 THEN first
                ELSE IF UnsignedLess(i, n)
                     THEN [cascadeFilter.firstOrderFilter[i] EXCEPT
                              !.isHighPass = isHighPass, !.coefficient = first.coefficient]
                     ELSE cascadeFilter.firstOrderFilter[i]]]

\* The cascade and the running output after the stages index .. numberOfFilters - 1
RECURSIVE CascadeFilterLoop(_, _, _)
CascadeFilterLoop(cascadeFilter, index, output) ==
    IF ~UnsignedLess(index, cascadeFilter.numberOfFilters)
    THEN [filter |-> cascadeFilter, output |-> output]
    ELSE LET stage == FirstOrderFilterUpdate(cascadeFilter.firstOrderFilter[index], output)
         IN  CascadeFilterLoop(
                 [cascadeFilter EXCEPT !.firstOrderFilter[index] = stage],
                 index + 1, stage.previousOutput)

\* The update running every stage of the array, whatever numberOfFilters
CascadeFilterUpdateAllStages(cascadeFilter, input) ==
    LET all == CascadeFilterLoop(
                   [cascadeFilter EXCEPT !.numberOfFilters = MAXIMUM_NUMBER_OF_CASCADED_FILTERS],
                   0, input)
    IN  [filter |-> [all.filter EXCEPT !.numberOfFilters = cascadeFilter.numberOfFilters],
         output |-> all.output]

CascadeFilterUpdate(cascadeFilter, input) == CascadeFilterLoop(cascadeFilter, 0, input)

\* ------------------------------------------------------------------------
\* Synthesiser/Waveforms.c

RECURSIVE LimitBelow(_)
LimitBelow(normalisedPeriod) ==
    IF normalisedPeriod < 0 THEN LimitBelow(normalisedPeriod + PhaseOne) ELSE normalisedPeriod

RECURSIVE LimitAbove(_)
LimitAbove(normalisedPeriod) ==
    IF normalisedPeriod > PhaseOne THEN LimitAbove(normalisedPeriod - PhaseOne) ELSE normalisedPeriod

\* The limit without the loop of lines 34 to 36
LimitNormalisedPeriodBelowOnly(normalisedPeriod) == LimitBelow(normalisedPeriod)

WaveformsLimitNormalisedPeriod(normalisedPeriod) == LimitAbove(LimitBelow(normalisedPeriod))

\* The sine table, one period sampled at WAVEFORM_TABLE_LENGTH points that
\* include both ends of the period
WAVEFORM_TABLE_LENGTH == 5

sineTable == <<0, One, 0, -One, 0>>

\* The interpolation with the index scaled by WAVEFORM_TABLE_LENGTH - 2
InterpolateWaveformTableShort(waveformTable, normalisedPeriod) ==
    LET index == normalisedPeriod * (WAVEFORM_TABLE_LENGTH - 2)
        indexFloor == index \div PhaseOne
        fraction == index % PhaseOne
        indexCeil == IF fraction = 0 THEN indexFloor ELSE indexFloor + 1
    IN  IF indexFloor = indexCeil
        THEN waveformTable[indexFloor + 1]
        ELSE MAP(index, indexFloor * PhaseOne, indexCeil * PhaseOne,
                 waveformTable[indexFloor + 1], waveformTable[indexCeil + 1])

\* Tables are indexed from 0 in the firmware
InterpolateWaveformTable(waveformTable, normalisedPeriod) ==
    LET index == normalisedPeriod * (WAVEFORM_TABLE_LENGTH - 1)
        indexFloor == index \div PhaseOne
        fraction == index % PhaseOne
        indexCeil == IF fraction = 0 THEN indexFloor ELSE indexFloor + 1
    IN  IF indexFloor = indexCeil
        THEN waveformTable[indexFloor + 1]
        ELSE MAP(index, indexFloor * PhaseOne, indexCeil * PhaseOne,
                 waveformTable[indexFloor + 1], waveformTable[indexCeil + 1])

WaveformsSine(normalisedPeriod) == InterpolateWaveformTable(sineTable, normalisedPeriod)

\* WaveformTables.h: the frequency below which the closed-form waveforms are
\* used, the frequency from which the sine wave is used, the number of tables
\* of each family, and the tables, from the fewest harmonics to the most
MINIMUM_FREQUENCY == 20

MAXIMUM_FREQUENCY == 20000

NUMBER_OF_TRIANGLE_WAVEFORMS == 3

NUMBER_OF_SAWTOOTH_WAVEFORMS == 4

NUMBER_OF_SQUARE_WAVEFORMS == 3

NUMBER_OF_PULSE_WAVEFORMS == 4

triangleTable ==
    [i \in 0 .. (NUMBER_OF_TRIANGLE_WAVEFORMS - 1) |->
        LET a == (One \div 16) * (10 + i) IN <<a, 0, -a, 0, a>>]

sawtoothTable ==
    [i \in 0 .. (NUMBER_OF_SAWTOOTH_WAVEFORMS - 1) |->
        LET a == (One \div 16) * (6 + i) IN <<0, a, 0, -a, 0>>]

squareTable ==
    [i \in 0 .. (NUMBER_OF_SQUARE_WAVEFORMS - 1) |->
        LET a == (One \div 16) * (12 + i) IN <<0, a, 0, -a, 0>>]

pulseTable ==
    [i \in 0 .. (NUMBER_OF_PULSE_WAVEFORMS - 1) |->
        LET a == (One \div 16) * (4 + i) IN <<a, -a, -a, -a, a>>]

\* The tests with the closed-form waveforms used below half of
\* MINIMUM_FREQUENCY only
BandwidthLimitedBranchLowerMinimum(frequency) ==
    IF 2 * frequency < MINIMUM_FREQUENCY THEN "unlimited"
    ELSE IF frequency >= MAXIMUM_FREQUENCY THEN "sine"
    ELSE "table"

\* The tests with the sine wave used above MAXIMUM_FREQUENCY only
BandwidthLimitedBranchAboveMaximum(frequency) ==
    IF frequency < MINIMUM_FREQUENCY THEN "unlimited"
    ELSE IF frequency > MAXIMUM_FREQUENCY THEN "sine"
    ELSE "table"

\* The two tests each bandwidth-limited waveform begins with
BandwidthLimitedBranch(frequency) ==
    IF frequency < MINIMUM_FREQUENCY THEN "unlimited"
    ELSE IF frequency >= MAXIMUM_FREQUENCY THEN "sine"
    ELSE "table"

\* (unsigned int) ((float) MAXIMUM_FREQUENCY / frequency), for a frequency
\* from MINIMUM_FREQUENCY up
Harmonic(frequency) == MAXIMUM_FREQUENCY \div frequency

\* wavefromIndex of the triangle and square waves: unsigned arithmetic, in
\* which 0 - 1 is the pattern of all ones
OddHarmonicWaveformIndex(frequency, numberOfWaveforms) ==
    UnsignedCLAMP(((Harmonic(frequency) - 1) \div 2) - 1, 0, numberOfWaveforms - 1)

\* wavefromIndex of the sawtooth and pulse waves with the difference and the
\* CLAMP evaluated as int
HarmonicWaveformIndexSigned(frequency, numberOfWaveforms) ==
    CLAMP(Harmonic(frequency) - 2, 0, numberOfWaveforms - 1)

\* wavefromIndex of the sawtooth and pulse waves
HarmonicWaveformIndex(frequency, numberOfWaveforms) ==
    UnsignedCLAMP(Harmonic(frequency) - 2, 0, numberOfWaveforms - 1)

WaveformsBandwidthLimitedTriangle(normalisedPeriod, frequency) ==
    CASE BandwidthLimitedBranch(frequency) = "unlimited" ->
             IF 2 * normalisedPeriod < PhaseOne
             THEN TruncDiv(-((normalisedPeriod - PhaseOne \div 4) * One), PhaseOne \div 4)
             ELSE TruncDiv((normalisedPeriod - 3 * (PhaseOne \div 4)) * One, PhaseOne \div 4)
      [] BandwidthLimitedBranch(frequency) = "sine" ->
             InterpolateWaveformTable(sineTable, normalisedPeriod)
      [] BandwidthLimitedBranch(frequency) = "table" ->
             InterpolateWaveformTable(
                 triangleTable[OddHarmonicWaveformIndex(frequency, NUMBER_OF_TRIANGLE_WAVEFORMS)],
                 normalisedPeriod)

WaveformsBandwidthLimitedSawtooth(normalisedPeriod, frequency) ==
    CASE BandwidthLimitedBranch(frequency) = "unlimited" ->
             -TruncDiv(normalisedPeriod * One, PhaseOne \div 2) + One
      [] BandwidthLimitedBranch(frequency) = "sine" ->
             InterpolateWaveformTable(sineTable, normalisedPeriod)
      [] BandwidthLimitedBranch(frequency) = "table" ->
             InterpolateWaveformTable(
                 sawtoothTable[HarmonicWaveformIndex(frequency, NUMBER_OF_SAWTOOTH_WAVEFORMS)],
                 normalisedPeriod)

WaveformsBandwidthLimitedSquare(normalisedPeriod, frequency) ==
    CASE BandwidthLimitedBranch(frequency) = "unlimited" ->
             IF 2 * normalisedPeriod < PhaseOne THEN One ELSE -One
      [] BandwidthLimitedBranch(frequency) = "sine" ->
             InterpolateWaveformTable(sineTable, normalisedPeriod)
      [] BandwidthLimitedBranch(frequency) = "table" ->
             InterpolateWaveformTable(
                 squareTable[OddHarmonicWaveformIndex(frequency, NUMBER_OF_SQUARE_WAVEFORMS)],
                 normalisedPeriod)

WaveformsBandwidthLimitedPulse(normalisedPeriod, frequency) ==
    CASE BandwidthLimitedBranch(frequency) = "unlimited" ->
             IF 20 * normalisedPeriod < PhaseOne THEN One
             ELSE IF 20 * normalisedPeriod > 19 * PhaseOne THEN One
             ELSE -One
      [] BandwidthLimitedBranch(frequency) = "sine" ->
             InterpolateWaveformTable(sineTable, normalisedPeriod)
      [] BandwidthLimitedBranch(frequency) = "table" ->
             InterpolateWaveformTable(
                 pulseTable[HarmonicWaveformIndex(frequency, NUMBER_OF_PULSE_WAVEFORMS)],
                 normalisedPeriod)

\* The statics of WaveformsOneBitNoise as initialised: 1.0f, 0 and 0xACE1
OneBitNoiseStatics == [returnValue |-> One, sampleCounter |-> 0, lfsr |-> 44257]

\* What the conversion of a float outside the range of unsigned int may yield
OutOfRangeConversions == {0, 1, 2147483647, -1}

\* (unsigned int) (sampleFrequency / frequency): the quotient rounded toward
\* zero when it is in the range of unsigned int; converted stands for the
\* result when it is not (an infinite quotient, or one of -1.0 or below)
SamplesPerUpdate(frequency, sampleFrequency, converted) ==
    IF frequency > 0 THEN sampleFrequency \div frequency
    ELSE IF frequency < -sampleFrequency THEN 0
    ELSE converted

\* Whether sampleFrequency / frequency is a value (unsigned int) converts
QuotientConversion(frequency, sampleFrequency) ==
    IF frequency = 0 THEN "DivisionByZero"
    ELSE IF frequency < 0 /\ frequency >= -sampleFrequency THEN "OutOfRange"
    ELSE "InRange"

\* The comparison with the counter incremented first
OneBitNoiseUpdatesPreIncrement(statics, samplesPerUpdate) ==
    ~UnsignedLess(statics.sampleCounter + 1, samplesPerUpdate)

\* sampleCounter++ >= samplesPerUpdate, an int compared with an unsigned int
OneBitNoiseUpdates(statics, samplesPerUpdate) ==
    ~UnsignedLess(statics.sampleCounter, samplesPerUpdate)

\* a ^ b for two values of the given number of bits
RECURSIVE BitXor(_, _, _)
BitXor(a, b, bits) ==
    IF bits = 0 THEN 0
    ELSE (((a % 2) + (b % 2)) % 2) + 2 * BitXor(a \div 2, b \div 2, bits - 1)

\* The call with the amplitudes of the two bits exchanged
WaveformsOneBitNoiseInverted(statics, frequency, sampleFrequency, converted) ==
    LET samplesPerUpdate == SamplesPerUpdate(frequency, sampleFrequency, converted)
        lsb == (statics.lfsr % 2) # 0
        shifted == statics.lfsr \div 2
    IN  IF OneBitNoiseUpdates(statics, samplesPerUpdate)
        THEN [returnValue |-> IF lsb THEN -One ELSE One,
              sampleCounter |-> 0,
              lfsr |-> IF lsb THEN BitXor(shifted, 46080, 16) ELSE shifted]
        ELSE [statics EXCEPT !.sampleCounter = @ + 1]

\* The call with taps 0xB000 in the shift register
WaveformsOneBitNoiseOtherTaps(statics, frequency, sampleFrequency, converted) ==
    LET samplesPerUpdate == SamplesPerUpdate(frequency, sampleFrequency, converted)
        lsb == (statics.lfsr % 2) # 0
        shifted == statics.lfsr \div 2
    IN  IF OneBitNoiseUpdates(statics, samplesPerUpdate)
        THEN [returnValue |-> IF lsb THEN One ELSE -One,
              sampleCounter |-> 0,
              lfsr |-> IF lsb THEN BitXor(shifted, 45056, 16) ELSE shifted]
        ELSE [statics EXCEPT !.sampleCounter = @ + 1]

\* The statics after one call; the value returned is returnValue. The taps of
\* the shift register are 0xB400.
WaveformsOneBitNoise(statics, frequency, sampleFrequency, converted) ==
    LET samplesPerUpdate == SamplesPerUpdate(frequency, sampleFrequency, converted)
        lsb == (statics.lfsr % 2) # 0
        shifted == statics.lfsr \div 2
    IN  IF OneBitNoiseUpdates(statics, samplesPerUpdate)
        THEN [returnValue |-> IF lsb THEN One ELSE -One,
              sampleCounter |-> 0,
              lfsr |-> IF lsb THEN BitXor(shifted, 46080, 16) ELSE shifted]
        ELSE [statics EXCEPT !.sampleCounter = @ + 1]

WaveformsAsymmetricSine(normalisedPeriod, shape) ==
    LET skewedNormalisedPeriod ==
            IF normalisedPeriod < shape
            THEN MAP(normalisedPeriod, 0, shape, 0, PhaseOne \div 2)
            ELSE MAP(normalisedPeriod, shape, PhaseOne, PhaseOne \div 2, PhaseOne)
    IN  InterpolateWaveformTable(
            sineTable, WaveformsLimitNormalisedPeriod(skewedNormalisedPeriod - PhaseOne \div 4))

WaveformsTriangle(normalisedPeriod, shape) ==
    IF normalisedPeriod < shape
    THEN MAP(normalisedPeriod, 0, shape, -One, One)
    ELSE MAP(normalisedPeriod, shape, PhaseOne, One, -One)

WaveformsSawtooth(normalisedPeriod, shape) ==
    LET s == TruncDiv(shape * One, PhaseOne)
        p == TruncDiv(normalisedPeriod * One, PhaseOne)
        normalisedWaveform == CLAMP(Mul(One + Mul(s, s) * 10, p), 0, One)
    IN  2 * (normalisedWaveform - One \div 2)

\* The square wave with the comparison of line 259 made inclusive
WaveformsSquareInclusive(normalisedPeriod, shape) ==
    IF normalisedPeriod <= shape THEN -One ELSE One

WaveformsSquare(normalisedPeriod, shape) == IF normalisedPeriod < shape THEN -One ELSE One

\* 3 + ROUND(shape * 29.0f)
NumberOfSteps(shape) == 3 + (2 * shape * 29 + PhaseOne) \div (2 * PhaseOne)

WaveformsSteppedTriangle(normalisedPeriod, shape) ==
    LET numberOfStepsMinusOne == NumberOfSteps(shape) - 1
        normalisedWaveform ==
            IF 2 * normalisedPeriod > PhaseOne
            THEN ((((2 * normalisedPeriod - PhaseOne) * numberOfStepsMinusOne) \div PhaseOne) * One)
                     \div numberOfStepsMinusOne
            ELSE ((-((-((PhaseOne - 2 * normalisedPeriod) * numberOfStepsMinusOne)) \div PhaseOne)) * One)
                     \div numberOfStepsMinusOne
    IN  -2 * (normalisedWaveform - One \div 2)

WaveformsSteppedSawtooth(normalisedPeriod, shape) ==
    LET numberOfSteps == NumberOfSteps(shape)
        normalisedWaveform ==
            (((normalisedPeriod * numberOfSteps) \div PhaseOne) * One) \div (numberOfSteps - 1)
    IN  2 * (normalisedWaveform - One \div 2)

\* ------------------------------------------------------------------------
\* Synthesiser/Synthesiser.h

\* Order of the members of SynthesiserParameters, the order of a structure copy
ParameterFields ==
    <<"lfoWaveform", "lfoShape", "lfoFrequency", "lfoAmplitude", "lfoGateControl",
      "vcoWaveform", "vcoFrequency", "delayTime", "delayFeedback", "delayFilterType",
      "delayFilterFrequency">>

DEFAULT_SYTHESISER_PARAMETERS ==
    [lfoWaveform |-> "LfoWaveformSine",
     lfoShape |-> PhaseOne \div 2,
     lfoFrequency |-> 2,
     lfoAmplitude |-> 500,
     lfoGateControl |-> FALSE,
     vcoWaveform |-> "VcoWaveformSine",
     vcoFrequency |-> 1000,
     delayTime |-> 0,
     delayFeedback |-> 0,
     delayFilterType |-> "DelayFilterTypeNone",
     delayFilterFrequency |-> 1]

\* A structure with static storage duration and no initialiser
ZeroParameters ==
    [lfoWaveform |-> "LfoWaveformSine",
     lfoShape |-> 0,
     lfoFrequency |-> 0,
     lfoAmplitude |-> 0,
     lfoGateControl |-> FALSE,
     vcoWaveform |-> "VcoWaveformSine",
     vcoFrequency |-> 0,
     delayTime |-> 0,
     delayFeedback |-> 0,
     delayFilterType |-> "DelayFilterTypeNone",
     delayFilterFrequency |-> 0]

\* ------------------------------------------------------------------------
\* Inputs of the control loop: the snapshots UserInterfaceDoTasks publishes

\* A slow gated LFO
SlowGated ==
    [lfoWaveform |-> "LfoWaveformSquare",
     lfoShape |-> PhaseOne \div 4,
     lfoFrequency |-> 5,
     lfoAmplitude |-> 300,
     lfoGateControl |-> TRUE,
     vcoWaveform |-> "VcoWaveformSine",
     vcoFrequency |-> 3000,
     delayTime |-> 4,
     delayFeedback |-> One \div 4,
     delayFilterType |-> "DelayFilterTypeLowPass",
     delayFilterFrequency |-> 6000]

\* A gated LFO whose pre-emptive gate period covers the whole LFO period
FastGated ==
    [lfoWaveform |-> "LfoWaveformTriangle",
     lfoShape |-> 3 * (PhaseOne \div 4),
     lfoFrequency |-> 200,
     lfoAmplitude |-> -400,
     lfoGateControl |-> TRUE,
     vcoWaveform |-> "VcoWaveformSine",
     vcoFrequency |-> 24000,
     delayTime |-> 2,
     delayFeedback |-> One \div 2,
     delayFilterType |-> "DelayFilterTypeHighPass",
     delayFilterFrequency |-> 100]

Presets == {SlowGated, FastGated}

\* Number of sample periods the model follows
MaxPeriods == 3

\* Number of passes of the control loop the model follows
MaxPasses == 2

\* ------------------------------------------------------------------------
\* State

VARIABLES
    \* Synthesiser.c
    synthesiserParameters, pendingSynthesiserParameters, newSynthesiserParametersPending,
    trigger, gate, gateGainLowPassFilter, delayBuffer, delayBufferIndex,
    delayTimeLowPassFilter, delayFilter,
    \* statics and locals of AudioUpdate
    output, lfoPeriodClock, vcoPeriodClock, gateGain, lfoWaveform, vcoModulatedFrequency,
    \* Dac.c and the peripheral registers it writes
    buffer, SPI1BUF, SPI1TXIF, T1IF,
    \* position of each execution context
    spiPc, t1Pc, mainPc,
    \* locals of UserInterfaceDoTasks and of the structure copy it is in
    uiParameters, uiTrigger, uiGate, copyIndex,
    \* whether the build emits the store of line 72, which no later statement of
    \* SynthesiserSetParameters reads before line 74 overwrites it
    clearingStoreEmitted,
    \* history: sample periods begun, passes of the control loop begun,
    \* AudioUpdate calls completed, last read index
    periods, passes, samples, lastReadIndex,
    \* history of the parameter hand-over: the snapshots of the calls of
    \* SynthesiserSetParameters that have returned, and the last of them
    published, lastPublished,
    \* history of the sample hand-over: the values written to SPI1BUF, one per
    \* output phase; the period, stage input, delayed sample and output of each
    \* completed AudioUpdate; the period the running AudioUpdate began in;
    \* whether a sample period has begun before the compute phase of the
    \* period before it was over; the number of compute requests raised while
    \* a compute phase was running
    written, computed, computePeriod, overrun, missed,
    \* history of the trigger: SynthesiserTrigger called since the last compute
    \* phase began; the running compute phase is the first after such a call;
    \* the phase at which it evaluated the LFO waveform
    triggerCalled, sampleTriggered, lfoEvaluatedAt,
    \* Waveforms.c: the statics of WaveformsOneBitNoise
    oneBitNoise,
    \* the filters of a caller that configures a CascadeFilter and a
    \* FirstOrderFilter alike and updates both with each input: the two
    \* structures, the stage count asked for, the two values returned
    cascade, single, requestedStages, cascadeReturned, singleReturned,
    \* a caller of WaveformsOneBitNoise: the frequency it passes, and for each
    \* call the value returned and whether the shift register stepped
    noiseFrequency, noiseHistory,
    \* calls made by these callers
    calls

synthVars ==
    <<synthesiserParameters, pendingSynthesiserParameters, newSynthesiserParametersPending,
      trigger, gate>>

dspVars ==
    <<gateGainLowPassFilter, delayBuffer, delayBufferIndex, delayTimeLowPassFilter,
      delayFilter, output, lfoPeriodClock, vcoPeriodClock, gateGain, lfoWaveform,
      vcoModulatedFrequency>>

dacVars == <<buffer, SPI1BUF, SPI1TXIF, T1IF>>

pcVars == <<spiPc, t1Pc, mainPc>>

uiVars == <<uiParameters, uiTrigger, uiGate, copyIndex>>

parameterHistory == <<published, lastPublished>>

sampleHistory == <<written, computed, computePeriod, overrun, missed>>

triggerHistory == <<triggerCalled, sampleTriggered, lfoEvaluatedAt>>

callVars ==
    <<cascade, single, requestedStages, cascadeReturned, singleReturned, noiseFrequency,
      noiseHistory, calls>>

historyVars ==
    <<periods, passes, samples, lastReadIndex, parameterHistory, sampleHistory, triggerHistory>>

vars ==
    <<synthVars, dspVars, dacVars, pcVars, uiVars, clearingStoreEmitted, historyVars,
      oneBitNoise, callVars>>

\* No caller of the filters or of the noise waveform on its own
NoCalls ==
    /\ cascade = ZeroCascade
    /\ single = ZeroFilter
    /\ requestedStages = 0
    /\ cascadeReturned = 0
    /\ singleReturned = 0
    /\ noiseFrequency = 0
    /\ noiseHistory = <<>>
    /\ calls = 0

\* ------------------------------------------------------------------------
\* Interrupt controller: priorities as DacInitialise sets them

Interrupts == {"SPI1TX", "T1"}

\* SPI1 TX given the priority of Timer 1
InterruptPriorityUniform(irq) == T1IP

InterruptPriority(irq) == IF irq = "SPI1TX" THEN SPI1TXIP ELSE T1IP

InterruptFlag(irq) == IF irq = "SPI1TX" THEN SPI1TXIF ELSE T1IF

InService(irq) == IF irq = "SPI1TX" THEN spiPc # "idle" ELSE t1Pc # "idle"

\* Priority the CPU runs at: that of the innermost handler in service
CurrentPriority ==
    IF \E irq \in Interrupts : InService(irq)
    THEN CHOOSE p \in {InterruptPriority(irq) : irq \in {i \in Interrupts : InService(i)}} :
             \A irq \in Interrupts : InService(irq) => InterruptPriority(irq) <= p
    ELSE 0

Requesting(irq) ==
    InterruptFlag(irq) /\ ~InService(irq) /\ InterruptPriority(irq) > CurrentPriority

\* The CPU vectors to the highest-priority request before its next instruction
Taken(irq) ==
    /\ Requesting(irq)
    /\ \A other \in Interrupts :
           Requesting(other) => InterruptPriority(other) <= InterruptPriority(irq)

NoRequest == \A irq \in Interrupts : ~Requesting(irq)

\* The context whose next statement the CPU executes
Executing(context) ==
    /\ NoRequest
    /\ IF context = "main"
       THEN \A irq \in Interrupts : ~InService(irq)
       ELSE InService(context) /\ InterruptPriority(context) = CurrentPriority

\* ------------------------------------------------------------------------
\* Dac.c

\* The code without the CLAMP of line 99
DacCodeUnclamped(sample) ==
    LET m == Abs(sample) * (DAC_FULL_SCALE \div One)
                 + (Abs(sample) * (DAC_FULL_SCALE % One)) \div One
    IN  IF sample >= 0 THEN m ELSE -m

\* CLAMP(sample, -1.0f, 1.0f) * (float) 0x7FFFFF converted to int
DacCode(sample) ==
    LET v == CLAMP(sample, -One, One)
        m == Abs(v) * (DAC_FULL_SCALE \div One) + (Abs(v) * (DAC_FULL_SCALE % One)) \div One
    IN  IF v >= 0 THEN m ELSE -m

\* The I2S transmit buffer has room: the peripheral raises the interrupt flag
\* once per sample period. A sample period is longer than Spi1TXInterrupt and
\* the entry of Timer1Interrupt after it; it may be shorter than AudioUpdate.
SpiTransmitReady ==
    /\ periods < MaxPeriods
    /\ ~SPI1TXIF
    /\ spiPc = "idle"
    /\ ~(T1IF /\ t1Pc = "idle")
    /\ SPI1TXIF' = TRUE
    /\ periods' = periods + 1
    /\ overrun' = (overrun \/ t1Pc # "idle")
    /\ UNCHANGED <<synthVars, dspVars, buffer, SPI1BUF, T1IF, pcVars, uiVars,
                   clearingStoreEmitted, oneBitNoise, callVars, passes, samples, lastReadIndex, parameterHistory,
                   written, computed, computePeriod, missed, triggerHistory>>

\* Spi1TXInterrupt with lines 80 and 81 exchanged: the compute interrupt is
\* triggered first
Spi1TXTriggerBeforeWrite ==
    /\ spiPc = "idle"
    /\ Taken("SPI1TX")
    /\ T1IF' = TRUE
    /\ SPI1BUF' = buffer
    /\ written' = Append(written, buffer)
    /\ spiPc' = "clear"
    /\ UNCHANGED <<synthVars, dspVars, buffer, SPI1TXIF, t1Pc, mainPc, uiVars,
                   clearingStoreEmitted, oneBitNoise, callVars, periods, passes, samples, lastReadIndex,
                   parameterHistory, computed, computePeriod, overrun, missed, triggerHistory>>

\* Spi1TXInterrupt, one statement per step
Spi1TXWrite ==
    /\ spiPc = "idle"
    /\ Taken("SPI1TX")
    /\ SPI1BUF' = buffer
    /\ written' = Append(written, buffer)
    /\ spiPc' = "trigger"
    /\ UNCHANGED <<synthVars, dspVars, buffer, SPI1TXIF, T1IF, t1Pc, mainPc, uiVars,
                   clearingStoreEmitted, oneBitNoise, callVars, periods, passes, samples, lastReadIndex, parameterHistory,
                   computed, computePeriod, overrun, missed, triggerHistory>>

\* Spi1TXInterrupt without line 81: no compute interrupt is triggered
Spi1TXWithoutTrigger ==
    /\ spiPc = "trigger"
    /\ Executing("SPI1TX")
    /\ spiPc' = "clear"
    /\ UNCHANGED <<synthVars, dspVars, dacVars, t1Pc, mainPc, uiVars, clearingStoreEmitted,
                   oneBitNoise, callVars, historyVars>>

Spi1TXTrigger ==
    /\ spiPc = "trigger"
    /\ Executing("SPI1TX")
    /\ T1IF' = TRUE
    /\ missed' = IF t1Pc # "idle" THEN missed + 1 ELSE missed
    /\ spiPc' = "clear"
    /\ UNCHANGED <<synthVars, dspVars, buffer, SPI1BUF, SPI1TXIF, t1Pc, mainPc, uiVars,
                   clearingStoreEmitted, oneBitNoise, callVars, periods, passes, samples, lastReadIndex,
                   parameterHistory, written, computed, computePeriod, overrun,
                   triggerHistory>>

Spi1TXClear ==
    /\ spiPc = "clear"
    /\ Executing("SPI1TX")
    /\ SPI1TXIF' = FALSE
    /\ spiPc' = "idle"
    /\ UNCHANGED <<synthVars, dspVars, buffer, SPI1BUF, T1IF, t1Pc, mainPc, uiVars, clearingStoreEmitted, oneBitNoise, callVars,
                   historyVars>>

\* Timer1Interrupt without line 91: the request stays raised
Timer1ClearKeepsRequest ==
    /\ t1Pc = "clear"
    /\ Executing("T1")
    /\ t1Pc' = "idle"
    /\ UNCHANGED <<synthVars, dspVars, dacVars, spiPc, mainPc, uiVars, clearingStoreEmitted, oneBitNoise, callVars,
                   historyVars>>

\* Timer1Interrupt: the call of AudioUpdate, then the statement after it
Timer1Clear ==
    /\ t1Pc = "clear"
    /\ Executing("T1")
    /\ T1IF' = FALSE
    /\ t1Pc' = "idle"
    /\ UNCHANGED <<synthVars, dspVars, buffer, SPI1BUF, SPI1TXIF, spiPc, mainPc, uiVars, clearingStoreEmitted, oneBitNoise, callVars,
                   historyVars>>

\* ------------------------------------------------------------------------
\* Synthesiser.c: AudioUpdate, in the order of its statements

\* AudioUpdate without line 107
AudioUpdateWithoutDacWrite ==
    /\ t1Pc = "idle"
    /\ Taken("T1")
    /\ t1Pc' = "parameters"
    /\ computePeriod' = periods
    /\ sampleTriggered' = triggerCalled
    /\ triggerCalled' = FALSE
    /\ UNCHANGED <<synthVars, dspVars, dacVars, spiPc, mainPc, uiVars,
                   clearingStoreEmitted, oneBitNoise, callVars, periods, passes, samples, lastReadIndex,
                   parameterHistory, written, computed, overrun, missed, lfoEvaluatedAt>>

\* Timer1Interrupt is taken and AudioUpdate writes the DAC buffer
AudioUpdateDac ==
    /\ t1Pc = "idle"
    /\ Taken("T1")
    /\ buffer' = DacCode(output)
    /\ t1Pc' = "parameters"
    /\ computePeriod' = periods
    /\ sampleTriggered' = triggerCalled
    /\ triggerCalled' = FALSE
    /\ UNCHANGED <<synthVars, dspVars, SPI1BUF, SPI1TXIF, T1IF, spiPc, mainPc, uiVars,
                   clearingStoreEmitted, oneBitNoise, callVars, periods, passes, samples, lastReadIndex, parameterHistory,
                   written, computed, overrun, missed, lfoEvaluatedAt>>

\* The adoption without line 117: the flag stays set
AudioUpdateParametersKeepsFlag ==
    /\ t1Pc = "parameters"
    /\ Executing("T1")
    /\ IF newSynthesiserParametersPending
       THEN /\ synthesiserParameters' = pendingSynthesiserParameters
            /\ delayFilter' = CascadeFilterSetCornerFrequency(
                   delayFilter,
                   pendingSynthesiserParameters.delayFilterFrequency,
                   SAMPLE_FREQUENCY,
                   pendingSynthesiserParameters.delayFilterType = "DelayFilterTypeHighPass",
                   3)
       ELSE UNCHANGED <<synthesiserParameters, delayFilter>>
    /\ t1Pc' = "trigger"
    /\ UNCHANGED <<pendingSynthesiserParameters, newSynthesiserParametersPending, trigger,
                   gate, gateGainLowPassFilter, delayBuffer, delayBufferIndex,
                   delayTimeLowPassFilter, output, lfoPeriodClock, vcoPeriodClock, gateGain,
                   lfoWaveform, vcoModulatedFrequency, dacVars, spiPc, mainPc, uiVars,
                   clearingStoreEmitted, oneBitNoise, callVars, historyVars>>

\* The adoption without the call of lines 112 to 116: the delay filter is not
\* configured
AudioUpdateParametersWithoutFilter ==
    /\ t1Pc = "parameters"
    /\ Executing("T1")
    /\ IF newSynthesiserParametersPending
       THEN /\ synthesiserParameters' = pendingSynthesiserParameters
            /\ newSynthesiserParametersPending' = FALSE
       ELSE UNCHANGED <<synthesiserParameters, newSynthesiserParametersPending>>
    /\ t1Pc' = "trigger"
    /\ UNCHANGED <<pendingSynthesiserParameters, trigger, gate, gateGainLowPassFilter,
                   delayBuffer, delayBufferIndex, delayTimeLowPassFilter, delayFilter, output,
                   lfoPeriodClock, vcoPeriodClock, gateGain, lfoWaveform,
                   vcoModulatedFrequency, dacVars, spiPc, mainPc, uiVars,
                   clearingStoreEmitted, oneBitNoise, callVars, historyVars>>

AudioUpdateParameters ==
    /\ t1Pc = "parameters"
    /\ Executing("T1")
    /\ IF newSynthesiserParametersPending
       THEN /\ synthesiserParameters' = pendingSynthesiserParameters
            /\ delayFilter' = CascadeFilterSetCornerFrequency(
                   delayFilter,
                   pendingSynthesiserParameters.delayFilterFrequency,
                   SAMPLE_FREQUENCY,
                   pendingSynthesiserParameters.delayFilterType = "DelayFilterTypeHighPass",
                   3)
            /\ newSynthesiserParametersPending' = FALSE
       ELSE UNCHANGED <<synthesiserParameters, delayFilter, newSynthesiserParametersPending>>
    /\ t1Pc' = "trigger"
    /\ UNCHANGED <<pendingSynthesiserParameters, trigger, gate, gateGainLowPassFilter,
                   delayBuffer, delayBufferIndex, delayTimeLowPassFilter, output,
                   lfoPeriodClock, vcoPeriodClock, gateGain, lfoWaveform,
                   vcoModulatedFrequency, dacVars, spiPc, mainPc, uiVars, clearingStoreEmitted, oneBitNoise, callVars,
                   historyVars>>

\* The trigger without line 124: the LFO period clock is not reset
AudioUpdateTriggerKeepsClock ==
    /\ t1Pc = "trigger"
    /\ Executing("T1")
    /\ IF trigger
       THEN /\ trigger' = FALSE
            /\ gate' = TRUE
       ELSE UNCHANGED <<trigger, gate>>
    /\ t1Pc' = "lfo"
    /\ UNCHANGED <<synthesiserParameters, pendingSynthesiserParameters,
                   newSynthesiserParametersPending, gateGainLowPassFilter, delayBuffer,
                   delayBufferIndex, delayTimeLowPassFilter, delayFilter, output,
                   lfoPeriodClock, vcoPeriodClock, gateGain, lfoWaveform,
                   vcoModulatedFrequency, dacVars, spiPc, mainPc, uiVars,
                   clearingStoreEmitted, oneBitNoise, callVars, historyVars>>

\* The trigger block without line 123: the flag stays set
AudioUpdateTriggerKeepsFlag ==
    /\ t1Pc = "trigger"
    /\ Executing("T1")
    /\ IF trigger
       THEN /\ lfoPeriodClock' = 0
            /\ gate' = TRUE
       ELSE UNCHANGED <<lfoPeriodClock, gate>>
    /\ t1Pc' = "lfo"
    /\ UNCHANGED <<synthesiserParameters, pendingSynthesiserParameters,
                   newSynthesiserParametersPending, trigger, gateGainLowPassFilter,
                   delayBuffer, delayBufferIndex, delayTimeLowPassFilter, delayFilter, output,
                   vcoPeriodClock, gateGain, lfoWaveform, vcoModulatedFrequency, dacVars,
                   spiPc, mainPc, uiVars, clearingStoreEmitted, oneBitNoise, callVars,
                   historyVars>>

AudioUpdateTrigger ==
    /\ t1Pc = "trigger"
    /\ Executing("T1")
    /\ IF trigger
       THEN /\ trigger' = FALSE
            /\ lfoPeriodClock' = 0
            /\ gate' = TRUE
       ELSE UNCHANGED <<trigger, lfoPeriodClock, gate>>
    /\ t1Pc' = "lfo"
    /\ UNCHANGED <<synthesiserParameters, pendingSynthesiserParameters,
                   newSynthesiserParametersPending, gateGainLowPassFilter, delayBuffer,
                   delayBufferIndex, delayTimeLowPassFilter, delayFilter, output,
                   vcoPeriodClock, gateGain, lfoWaveform, vcoModulatedFrequency, dacVars,
                   spiPc, mainPc, uiVars, clearingStoreEmitted, oneBitNoise, callVars,
                   historyVars>>

LfoWaveformValue(parameters, normalisedPeriod) ==
    CASE parameters.lfoWaveform = "LfoWaveformSine" ->
             WaveformsAsymmetricSine(normalisedPeriod, parameters.lfoShape)
      [] parameters.lfoWaveform = "LfoWaveformTriangle" ->
             WaveformsTriangle(normalisedPeriod, parameters.lfoShape)
      [] parameters.lfoWaveform = "LfoWaveformSawtooth" ->
             WaveformsSawtooth(normalisedPeriod, parameters.lfoShape)
      [] parameters.lfoWaveform = "LfoWaveformSquare" ->
             WaveformsSquare(normalisedPeriod, parameters.lfoShape)
      [] parameters.lfoWaveform = "LfoWaveformSteppedTriangle" ->
             WaveformsSteppedTriangle(normalisedPeriod, parameters.lfoShape)
      [] parameters.lfoWaveform = "LfoWaveformSteppedSawtooth" ->
             WaveformsSteppedSawtooth(normalisedPeriod, parameters.lfoShape)
      [] OTHER -> 0

\* lfoPeriodClock after the addition of this sample's step, before the wrap
LfoAdvanced(parameters, normalisedPeriod) == normalisedPeriod + parameters.lfoFrequency

\* The test of line 149 made on the phase before line 148 advances it
LfoClosesGateBeforeAdvance(parameters, normalisedPeriod) ==
    /\ parameters.lfoGateControl
    /\ normalisedPeriod >= PhaseOne - PREEMPTIVE_GATE_PERIOD * parameters.lfoFrequency

LfoClosesGate(parameters, normalisedPeriod) ==
    /\ parameters.lfoGateControl
    /\ LfoAdvanced(parameters, normalisedPeriod)
           >= PhaseOne - PREEMPTIVE_GATE_PERIOD * parameters.lfoFrequency

\* The LFO step with the gate following the test of line 149 in both
\* directions: a false test opens the gate again
AudioUpdateLfoGateFollowsPhase ==
    /\ t1Pc = "lfo"
    /\ Executing("T1")
    /\ LET value == LfoWaveformValue(synthesiserParameters, lfoPeriodClock)
       IN  /\ lfoWaveform' = value
           /\ vcoModulatedFrequency' =
                  synthesiserParameters.vcoFrequency
                      + TruncDiv(synthesiserParameters.lfoAmplitude * value, One)
    /\ gate' = IF synthesiserParameters.lfoGateControl
               THEN ~LfoClosesGate(synthesiserParameters, lfoPeriodClock)
               ELSE gate
    /\ lfoPeriodClock' =
           WaveformsLimitNormalisedPeriod(LfoAdvanced(synthesiserParameters, lfoPeriodClock))
    /\ lfoEvaluatedAt' = lfoPeriodClock
    /\ t1Pc' = "vco"
    /\ UNCHANGED <<synthesiserParameters, pendingSynthesiserParameters,
                   newSynthesiserParametersPending, trigger, gateGainLowPassFilter,
                   delayBuffer, delayBufferIndex, delayTimeLowPassFilter, delayFilter, output,
                   vcoPeriodClock, gateGain, dacVars, spiPc, mainPc, uiVars,
                   clearingStoreEmitted, oneBitNoise, callVars, periods, passes, samples, lastReadIndex, parameterHistory,
                   sampleHistory, triggerCalled, sampleTriggered>>

\* The LFO step with line 148 moved before the switch of line 128: the
\* waveform is evaluated at the advanced phase
AudioUpdateLfoAdvancesFirst ==
    /\ t1Pc = "lfo"
    /\ Executing("T1")
    /\ LET advanced ==
               WaveformsLimitNormalisedPeriod(LfoAdvanced(synthesiserParameters, lfoPeriodClock))
           value == LfoWaveformValue(synthesiserParameters, advanced)
       IN  /\ lfoWaveform' = value
           /\ vcoModulatedFrequency' =
                  synthesiserParameters.vcoFrequency
                      + TruncDiv(synthesiserParameters.lfoAmplitude * value, One)
           /\ lfoPeriodClock' = advanced
    /\ gate' = IF LfoClosesGate(synthesiserParameters, lfoPeriodClock) THEN FALSE ELSE gate
    /\ lfoEvaluatedAt' = lfoPeriodClock
    /\ t1Pc' = "vco"
    /\ UNCHANGED <<synthesiserParameters, pendingSynthesiserParameters,
                   newSynthesiserParametersPending, trigger, gateGainLowPassFilter,
                   delayBuffer, delayBufferIndex, delayTimeLowPassFilter, delayFilter, output,
                   vcoPeriodClock, gateGain, dacVars, spiPc, mainPc, uiVars,
                   clearingStoreEmitted, oneBitNoise, callVars, periods, passes, samples, lastReadIndex, parameterHistory,
                   sampleHistory, triggerCalled, sampleTriggered>>

AudioUpdateLfo ==
    /\ t1Pc = "lfo"
    /\ Executing("T1")
    /\ LET value == LfoWaveformValue(synthesiserParameters, lfoPeriodClock)
       IN  /\ lfoWaveform' = value
           /\ vcoModulatedFrequency' =
                  synthesiserParameters.vcoFrequency
                      + TruncDiv(synthesiserParameters.lfoAmplitude * value, One)
    /\ gate' = IF LfoClosesGate(synthesiserParameters, lfoPeriodClock) THEN FALSE ELSE gate
    /\ lfoPeriodClock' =
           WaveformsLimitNormalisedPeriod(LfoAdvanced(synthesiserParameters, lfoPeriodClock))
    /\ lfoEvaluatedAt' = lfoPeriodClock
    /\ t1Pc' = "vco"
    /\ UNCHANGED <<synthesiserParameters, pendingSynthesiserParameters,
                   newSynthesiserParametersPending, trigger, gateGainLowPassFilter,
                   delayBuffer, delayBufferIndex, delayTimeLowPassFilter, delayFilter, output,
                   vcoPeriodClock, gateGain, dacVars, spiPc, mainPc, uiVars,
                   clearingStoreEmitted, oneBitNoise, callVars, periods, passes, samples, lastReadIndex, parameterHistory,
                   sampleHistory, triggerCalled, sampleTriggered>>

\* The switch of lines 157 to 176; noise is the statics of WaveformsOneBitNoise
\* after the call of line 174
VcoWaveformValue(parameters, normalisedPeriod, frequency, noise) ==
    CASE parameters.vcoWaveform = "VcoWaveformSine" -> WaveformsSine(normalisedPeriod)
      [] parameters.vcoWaveform = "VcoWaveformTriangle" ->
             WaveformsBandwidthLimitedTriangle(normalisedPeriod, frequency)
      [] parameters.vcoWaveform = "VcoWaveformSawtooth" ->
             WaveformsBandwidthLimitedSawtooth(normalisedPeriod, frequency)
      [] parameters.vcoWaveform = "VcoWaveformSquare" ->
             WaveformsBandwidthLimitedSquare(normalisedPeriod, frequency)
      [] parameters.vcoWaveform = "VcoWaveformPulse" ->
             WaveformsBandwidthLimitedPulse(normalisedPeriod, frequency)
      [] parameters.vcoWaveform = "VcoWaveformOneBitNoise" -> noise.returnValue

AudioUpdateVco ==
    /\ t1Pc = "vco"
    /\ Executing("T1")
    /\ \E converted \in OutOfRangeConversions :
        LET noise == WaveformsOneBitNoise(
                         oneBitNoise, vcoModulatedFrequency, SAMPLE_FREQUENCY, converted)
        IN  /\ output' = VcoWaveformValue(
                             synthesiserParameters, vcoPeriodClock, vcoModulatedFrequency, noise)
            /\ oneBitNoise' = IF synthesiserParameters.vcoWaveform = "VcoWaveformOneBitNoise"
                              THEN noise ELSE oneBitNoise
    /\ vcoPeriodClock' = WaveformsLimitNormalisedPeriod(vcoPeriodClock + vcoModulatedFrequency)
    /\ t1Pc' = "gate"
    /\ UNCHANGED <<synthVars, gateGainLowPassFilter, delayBuffer, delayBufferIndex,
                   delayTimeLowPassFilter, delayFilter, lfoPeriodClock, gateGain,
                   lfoWaveform, vcoModulatedFrequency, dacVars, spiPc, mainPc, uiVars,
                   clearingStoreEmitted, callVars, historyVars>>

\* The gate stage without the filter: the gain is the gate itself
AudioUpdateGateUnsmoothed ==
    /\ t1Pc = "gate"
    /\ Executing("T1")
    /\ LET input == IF gate THEN One ELSE 0
       IN  /\ gateGainLowPassFilter' =
                  [gateGainLowPassFilter EXCEPT !.previousInput = input,
                                                !.previousOutput = input]
           /\ gateGain' = input
           /\ output' = Mul(Mul(output, input), One \div 4)
    /\ t1Pc' = "delay"
    /\ UNCHANGED <<synthVars, delayBuffer, delayBufferIndex, delayTimeLowPassFilter,
                   delayFilter, lfoPeriodClock, vcoPeriodClock, lfoWaveform,
                   vcoModulatedFrequency, dacVars, spiPc, mainPc, uiVars, clearingStoreEmitted, oneBitNoise, callVars,
                   historyVars>>

\* The gate gain and the attenuation of the output
AudioUpdateGate ==
    /\ t1Pc = "gate"
    /\ Executing("T1")
    /\ LET filter == FirstOrderFilterUpdate(gateGainLowPassFilter, IF gate THEN One ELSE 0)
       IN  /\ gateGainLowPassFilter' = filter
           /\ gateGain' = filter.previousOutput
           /\ output' = Mul(Mul(output, filter.previousOutput), One \div 4)
    /\ t1Pc' = "delay"
    /\ UNCHANGED <<synthVars, delayBuffer, delayBufferIndex, delayTimeLowPassFilter,
                   delayFilter, lfoPeriodClock, vcoPeriodClock, lfoWaveform,
                   vcoModulatedFrequency, dacVars, spiPc, mainPc, uiVars, clearingStoreEmitted, oneBitNoise, callVars,
                   historyVars>>

\* The delay in samples rounded to the nearest sample instead
DelaySamplesRounded(delayTime) ==
    TruncDiv(2 * delayTime + TimeOne \div SAMPLE_FREQUENCY, 2 * (TimeOne \div SAMPLE_FREQUENCY))

\* (int) (delayTime * SAMPLE_FREQUENCY) for a delay time in units of 1/TimeOne
DelaySamples(delayTime) == TruncDiv(delayTime, TimeOne \div SAMPLE_FREQUENCY)

\* The read index without the CLAMP of line 214
ReadIndexWithoutClamp(index, delayTime) ==
    LET readIndex == index - DelaySamples(delayTime)
    IN  IF readIndex < 0 THEN DELAY_BUFFER_SIZE + readIndex ELSE readIndex

\* Index at which ReadFromDelayBuffer reads, for the smoothed delay time
ReadIndex(index, delayTime) ==
    LET readIndex == index - CLAMP(DelaySamples(delayTime), 0, DELAY_BUFFER_SIZE)
    IN  IF readIndex < 0 THEN DELAY_BUFFER_SIZE + readIndex ELSE readIndex

\* The increment wrapping one step late: > instead of >= at line 234
IncrementDelayBufferIndexLate(index) == IF index + 1 > DELAY_BUFFER_SIZE THEN 0 ELSE index + 1

IncrementDelayBufferIndex(index) == IF index + 1 >= DELAY_BUFFER_SIZE THEN 0 ELSE index + 1

\* What a read outside the array may return
StrayValues == {-One, 0, One}

\* The delay stage with MixToDelayBuffer adding the sample without the CLAMP
\* of line 227
DelayStageMixUnclamped(parameters, sample, bufferBefore, index, smoothingFilter, filter, stray) ==
    LET afterWrite == [bufferBefore EXCEPT ![index] = sample]
        smoothing == FirstOrderFilterUpdate(smoothingFilter, parameters.delayTime)
        readIndex == ReadIndex(index, smoothing.previousOutput)
        delayed == IF readIndex \in DOMAIN afterWrite THEN afterWrite[readIndex] ELSE stray
        fedBack == Mul(parameters.delayFeedback, delayed)
        filtered == CascadeFilterUpdate(filter, fedBack)
        useFilter == parameters.delayFilterType # "DelayFilterTypeNone"
        delaySample == IF useFilter THEN filtered.output ELSE fedBack
    IN  [delayTimeLowPassFilter |-> smoothing,
         readIndex |-> readIndex,
         delayed |-> delayed,
         delayFilter |-> IF useFilter THEN filtered.filter ELSE filter,
         delayBuffer |-> [afterWrite EXCEPT ![index] = @ + delaySample],
         delayBufferIndex |-> IncrementDelayBufferIndex(index),
         output |-> sample + delaySample]

\* Lines 189 to 196 of AudioUpdate for one sample: WriteToDelayBuffer,
\* ReadFromDelayBuffer, the delay filter, MixToDelayBuffer,
\* IncrementDelayBufferIndex and the sum that ends AudioUpdate. stray is what
\* the read returns when its index is outside the array.
DelayStage(parameters, sample, bufferBefore, index, smoothingFilter, filter, stray) ==
    LET afterWrite == [bufferBefore EXCEPT ![index] = sample]
        smoothing == FirstOrderFilterUpdate(smoothingFilter, parameters.delayTime)
        readIndex == ReadIndex(index, smoothing.previousOutput)
        delayed == IF readIndex \in DOMAIN afterWrite THEN afterWrite[readIndex] ELSE stray
        fedBack == Mul(parameters.delayFeedback, delayed)
        filtered == CascadeFilterUpdate(filter, fedBack)
        useFilter == parameters.delayFilterType # "DelayFilterTypeNone"
        delaySample == IF useFilter THEN filtered.output ELSE fedBack
    IN  [delayTimeLowPassFilter |-> smoothing,
         readIndex |-> readIndex,
         delayed |-> delayed,
         delayFilter |-> IF useFilter THEN filtered.filter ELSE filter,
         delayBuffer |-> [afterWrite EXCEPT ![index] = @ + CLAMP(delaySample, -One, One)],
         delayBufferIndex |-> IncrementDelayBufferIndex(index),
         output |-> sample + delaySample]

AudioUpdateDelay ==
    /\ t1Pc = "delay"
    /\ Executing("T1")
    /\ \E stray \in StrayValues :
        LET stage == DelayStage(synthesiserParameters, output, delayBuffer, delayBufferIndex,
                                delayTimeLowPassFilter, delayFilter, stray)
        IN  /\ delayTimeLowPassFilter' = stage.delayTimeLowPassFilter
            /\ lastReadIndex' = stage.readIndex
            /\ delayFilter' = stage.delayFilter
            /\ delayBuffer' = stage.delayBuffer
            /\ delayBufferIndex' = stage.delayBufferIndex
            /\ output' = stage.output
            /\ computed' = Append(computed,
                   [period |-> computePeriod, input |-> output,
                    delayed |-> stage.delayed, output |-> stage.output])
    /\ lfoWaveform' = 0
    /\ vcoModulatedFrequency' = 0
    /\ samples' = samples + 1
    /\ t1Pc' = "clear"
    /\ UNCHANGED <<synthVars, gateGainLowPassFilter, lfoPeriodClock, vcoPeriodClock, gateGain,
                   dacVars, spiPc, mainPc, uiVars, clearingStoreEmitted, oneBitNoise, callVars, periods, passes,
                   parameterHistory, written, computePeriod, overrun, missed, triggerHistory>>

AudioUpdate ==
    \/ AudioUpdateDac
    \/ AudioUpdateParameters
    \/ AudioUpdateTrigger
    \/ AudioUpdateLfo
    \/ AudioUpdateVco
    \/ AudioUpdateGate
    \/ AudioUpdateDelay

\* ------------------------------------------------------------------------
\* main.c and UserInterface.c: the control loop

\* UserInterfaceInitialise reads the presets over the bit-banged I2C bus, which
\* takes thousands of sample periods: the first sample period is over when it
\* returns
UserInterfaceInitialise ==
    /\ mainPc = "initialise"
    /\ Executing("main")
    /\ samples >= 1
    /\ mainPc' = "tasks"
    /\ UNCHANGED <<synthVars, dspVars, dacVars, spiPc, t1Pc, uiVars, clearingStoreEmitted, oneBitNoise, callVars,
                   historyVars>>

\* One pass of UserInterfaceDoTasks up to its first call into the synthesiser:
\* the buttons and keys pressed and the parameters read make the inputs
UserInterfaceDoTasks ==
    /\ mainPc = "tasks"
    /\ Executing("main")
    /\ passes < MaxPasses
    /\ passes' = passes + 1
    /\ \E gateButton \in BOOLEAN, triggerPressed \in BOOLEAN, parameters \in Presets :
        /\ uiTrigger' = triggerPressed
        /\ uiParameters' = parameters
        /\ mainPc' = IF gateButton THEN "getGate"
                     ELSE IF triggerPressed THEN "trigger" ELSE "setParameters"
    /\ UNCHANGED <<synthVars, dspVars, dacVars, spiPc, t1Pc, uiGate, copyIndex,
                   clearingStoreEmitted, oneBitNoise, callVars, periods, samples, lastReadIndex, parameterHistory,
                   sampleHistory, triggerHistory>>

\* SynthesiserSetGate(!SynthesiserGetGate()): the read, then the write
SynthesiserGetGate ==
    /\ mainPc = "getGate"
    /\ Executing("main")
    /\ uiGate' = gate
    /\ mainPc' = "setGate"
    /\ UNCHANGED <<synthVars, dspVars, dacVars, spiPc, t1Pc, uiParameters, uiTrigger,
                   copyIndex, clearingStoreEmitted, oneBitNoise, callVars,
                   historyVars>>

SynthesiserSetGate ==
    /\ mainPc = "setGate"
    /\ Executing("main")
    /\ gate' = ~uiGate
    /\ uiGate' = FALSE
    /\ mainPc' = IF uiTrigger THEN "trigger" ELSE "setParameters"
    /\ UNCHANGED <<synthesiserParameters, pendingSynthesiserParameters,
                   newSynthesiserParametersPending, trigger, dspVars, dacVars, spiPc, t1Pc,
                   uiParameters, uiTrigger, copyIndex, clearingStoreEmitted, oneBitNoise, callVars,
                   historyVars>>

\* SynthesiserTrigger resetting the LFO period clock itself
SynthesiserTriggerResetsClock ==
    /\ mainPc = "trigger"
    /\ Executing("main")
    /\ trigger' = TRUE
    /\ lfoPeriodClock' = 0
    /\ triggerCalled' = TRUE
    /\ mainPc' = "setParameters"
    /\ UNCHANGED <<synthesiserParameters, pendingSynthesiserParameters,
                   newSynthesiserParametersPending, gate, gateGainLowPassFilter, delayBuffer,
                   delayBufferIndex, delayTimeLowPassFilter, delayFilter, output,
                   vcoPeriodClock, gateGain, lfoWaveform, vcoModulatedFrequency, dacVars,
                   spiPc, t1Pc, uiVars, clearingStoreEmitted, oneBitNoise, callVars, periods,
                   passes, samples, lastReadIndex, parameterHistory, sampleHistory,
                   sampleTriggered, lfoEvaluatedAt>>

SynthesiserTrigger ==
    /\ mainPc = "trigger"
    /\ Executing("main")
    /\ trigger' = TRUE
    /\ triggerCalled' = TRUE
    /\ mainPc' = "setParameters"
    /\ UNCHANGED <<synthesiserParameters, pendingSynthesiserParameters,
                   newSynthesiserParametersPending, gate, dspVars, dacVars, spiPc, t1Pc,
                   uiVars, clearingStoreEmitted, oneBitNoise, callVars, periods, passes, samples, lastReadIndex,
                   parameterHistory, sampleHistory, sampleTriggered, lfoEvaluatedAt>>

\* SynthesiserSetParameters: the flag is cleared, the structure is copied member
\* by member, the flag is set
SetParametersClear ==
    /\ mainPc = "setParameters"
    /\ Executing("main")
    /\ newSynthesiserParametersPending' =
           IF clearingStoreEmitted THEN FALSE ELSE newSynthesiserParametersPending
    /\ copyIndex' = 1
    /\ mainPc' = "copy"
    /\ UNCHANGED <<synthesiserParameters, pendingSynthesiserParameters, trigger, gate,
                   dspVars, dacVars, spiPc, t1Pc, uiParameters, uiTrigger, uiGate,
                   clearingStoreEmitted, oneBitNoise, callVars, historyVars>>

SetParametersCopy ==
    /\ mainPc = "copy"
    /\ Executing("main")
    /\ pendingSynthesiserParameters' =
           [pendingSynthesiserParameters EXCEPT
               ![ParameterFields[copyIndex]] = uiParameters[ParameterFields[copyIndex]]]
    /\ IF copyIndex = Len(ParameterFields)
       THEN copyIndex' = 0 /\ mainPc' = "publish"
       ELSE copyIndex' = copyIndex + 1 /\ mainPc' = "copy"
    /\ UNCHANGED <<synthesiserParameters, newSynthesiserParametersPending, trigger, gate,
                   dspVars, dacVars, spiPc, t1Pc, uiParameters, uiTrigger, uiGate,
                   clearingStoreEmitted, oneBitNoise, callVars, historyVars>>

SetParametersPublish ==
    /\ mainPc = "publish"
    /\ Executing("main")
    /\ newSynthesiserParametersPending' = TRUE
    /\ published' = published \cup {uiParameters}
    /\ lastPublished' = uiParameters
    /\ mainPc' = "tasks"
    /\ UNCHANGED <<synthesiserParameters, pendingSynthesiserParameters, trigger, gate,
                   dspVars, dacVars, spiPc, t1Pc, uiVars, clearingStoreEmitted, oneBitNoise, callVars, periods, passes,
                   samples, lastReadIndex, sampleHistory, triggerHistory>>

SynthesiserSetParameters == SetParametersClear \/ SetParametersCopy \/ SetParametersPublish

ControlLoop ==
    \/ UserInterfaceInitialise
    \/ UserInterfaceDoTasks
    \/ SynthesiserGetGate
    \/ SynthesiserSetGate
    \/ SynthesiserTrigger
    \/ SynthesiserSetParameters

\* ------------------------------------------------------------------------
\* The firmware after SynthesiserInitialise

Init ==
    /\ synthesiserParameters = ZeroParameters
    /\ pendingSynthesiserParameters = DEFAULT_SYTHESISER_PARAMETERS
    /\ newSynthesiserParametersPending = TRUE
    /\ trigger = FALSE
    /\ gate = TRUE
    /\ gateGainLowPassFilter =
           FirstOrderFilterSetCornerFrequency(ZeroFilter, 100, SAMPLE_FREQUENCY, FALSE)
    /\ delayTimeLowPassFilter =
           FirstOrderFilterSetCornerFrequency(ZeroFilter, 1, SAMPLE_FREQUENCY, FALSE)
    /\ delayFilter = ZeroCascade
    /\ delayBuffer = [i \in 0 .. (DELAY_BUFFER_SIZE - 1) |-> 0]
    /\ delayBufferIndex = 0
    /\ lastReadIndex = 0
    /\ output = 0
    /\ lfoPeriodClock = 0
    /\ vcoPeriodClock = 0
    /\ gateGain = 0
    /\ lfoWaveform = 0
    /\ vcoModulatedFrequency = 0
    /\ buffer = 0
    /\ SPI1BUF = 0
    /\ SPI1TXIF = FALSE
    /\ T1IF = FALSE
    /\ spiPc = "idle"
    /\ t1Pc = "idle"
    /\ mainPc = "initialise"
    /\ uiParameters = ZeroParameters
    /\ uiTrigger = FALSE
    /\ uiGate = FALSE
    /\ copyIndex = 0
    /\ clearingStoreEmitted \in BOOLEAN
    /\ periods = 0
    /\ passes = 0
    /\ samples = 0
    /\ published = {}
    /\ lastPublished = DEFAULT_SYTHESISER_PARAMETERS
    /\ written = <<>>
    /\ computed = <<>>
    /\ computePeriod = 0
    /\ overrun = FALSE
    /\ missed = 0
    /\ triggerCalled = FALSE
    /\ sampleTriggered = FALSE
    /\ lfoEvaluatedAt = 0
    /\ oneBitNoise = OneBitNoiseStatics
    /\ NoCalls

Spi1TXInterrupt == Spi1TXWrite \/ Spi1TXTrigger \/ Spi1TXClear

Timer1Interrupt == AudioUpdate \/ Timer1Clear

Next == SpiTransmitReady \/ Spi1TXInterrupt \/ Timer1Interrupt \/ ControlLoop

Spec == Init /\ [][Next]_vars

\* ------------------------------------------------------------------------
\* The interrupts alone, from a published snapshot and an audio state drawn
\* from bounded sets, while the control loop is in UserInterfaceInitialise

\* Phase increments that are positive, zero, negative and larger than a period
Rising ==
    [DEFAULT_SYTHESISER_PARAMETERS EXCEPT
        !.lfoFrequency = PhaseOne \div 4, !.lfoAmplitude = 0,
        !.vcoFrequency = PhaseOne \div 4, !.delayTime = 4]

Falling ==
    [DEFAULT_SYTHESISER_PARAMETERS EXCEPT
        !.lfoFrequency = -(PhaseOne \div 4), !.lfoAmplitude = 500,
        !.vcoFrequency = -200, !.delayTime = -TimeOne]

Still ==
    [DEFAULT_SYTHESISER_PARAMETERS EXCEPT
        !.lfoFrequency = 0, !.lfoAmplitude = 0, !.vcoFrequency = 0, !.delayTime = 0]

Wide ==
    [DEFAULT_SYTHESISER_PARAMETERS EXCEPT
        !.lfoFrequency = 3, !.lfoAmplitude = -500,
        !.vcoFrequency = PhaseOne + PhaseOne \div 4, !.delayTime = 1000000]

SampleSnapshots == {Rising, Falling, Still, Wide}

SamplePhases == {0, PhaseOne \div 4, 3 * (PhaseOne \div 4)}

\* Smoothed delay times: negative, zero, inside the buffer, beyond the buffer
SmoothedDelayTimes == {-TimeOne, 0, 3, 1000000}

InitSample ==
    /\ synthesiserParameters = ZeroParameters
    /\ pendingSynthesiserParameters \in SampleSnapshots
    /\ newSynthesiserParametersPending = TRUE
    /\ trigger = FALSE
    /\ gate = TRUE
    /\ gateGainLowPassFilter =
           FirstOrderFilterSetCornerFrequency(ZeroFilter, 100, SAMPLE_FREQUENCY, FALSE)
    /\ \E smoothed \in SmoothedDelayTimes :
           delayTimeLowPassFilter =
               [FirstOrderFilterSetCornerFrequency(ZeroFilter, 1, SAMPLE_FREQUENCY, FALSE)
                    EXCEPT !.previousInput = smoothed, !.previousOutput = smoothed]
    /\ delayFilter = ZeroCascade
    /\ delayBuffer = [i \in 0 .. (DELAY_BUFFER_SIZE - 1) |-> 0]
    /\ delayBufferIndex \in 0 .. (DELAY_BUFFER_SIZE - 1)
    /\ lastReadIndex = 0
    /\ output = 0
    /\ lfoPeriodClock \in SamplePhases
    /\ vcoPeriodClock \in SamplePhases
    /\ gateGain = 0
    /\ lfoWaveform = 0
    /\ vcoModulatedFrequency = 0
    /\ buffer = 0
    /\ SPI1BUF = 0
    /\ SPI1TXIF = FALSE
    /\ T1IF = FALSE
    /\ spiPc = "idle"
    /\ t1Pc = "idle"
    /\ mainPc = "initialise"
    /\ uiParameters = ZeroParameters
    /\ uiTrigger = FALSE
    /\ uiGate = FALSE
    /\ copyIndex = 0
    /\ clearingStoreEmitted = TRUE
    /\ periods = 0
    /\ passes = 0
    /\ samples = 0
    /\ published = {pendingSynthesiserParameters}
    /\ lastPublished = pendingSynthesiserParameters
    /\ written = <<>>
    /\ computed = <<>>
    /\ computePeriod = 0
    /\ overrun = FALSE
    /\ missed = 0
    /\ triggerCalled = FALSE
    /\ sampleTriggered = FALSE
    /\ lfoEvaluatedAt = 0
    /\ oneBitNoise = OneBitNoiseStatics
    /\ NoCalls

NextSample == SpiTransmitReady \/ Spi1TXInterrupt \/ Timer1Interrupt

SpecSample == InitSample /\ [][NextSample]_vars

\* The firmware from SynthesiserInitialise on, while the control loop is in
\* UserInterfaceInitialise. The CPU executes the next statement of the handler
\* it is in, and vectors to a handler whose request it can take.
FairStartup ==
    /\ Init
    /\ [][NextSample]_vars
    /\ WF_vars(Spi1TXInterrupt)
    /\ WF_vars(Timer1Interrupt)

\* ------------------------------------------------------------------------
\* The delay stage alone: a unit impulse, then silence, handed to lines 189 to
\* 196 of AudioUpdate with the delay time settled

\* Number of samples the delay stage is followed for
MaxSamples == 5

\* Delay times of 0, 1, 1.5, 2 and 3 sample periods
SettledDelayTimes == {0, 2, 3, 4, 6}

DelayFeedbacks == {0, One \div 2}

DelaySnapshots ==
    {[DEFAULT_SYTHESISER_PARAMETERS EXCEPT !.delayTime = delayTime, !.delayFeedback = feedback] :
        delayTime \in SettledDelayTimes, feedback \in DelayFeedbacks}

\* AudioUpdate is at line 189 with the impulse as its output
InitDelay ==
    /\ synthesiserParameters \in DelaySnapshots
    /\ pendingSynthesiserParameters = synthesiserParameters
    /\ newSynthesiserParametersPending = FALSE
    /\ trigger = FALSE
    /\ gate = TRUE
    /\ gateGainLowPassFilter =
           FirstOrderFilterSetCornerFrequency(ZeroFilter, 100, SAMPLE_FREQUENCY, FALSE)
    /\ delayTimeLowPassFilter =
           [FirstOrderFilterSetCornerFrequency(ZeroFilter, 1, SAMPLE_FREQUENCY, FALSE)
                EXCEPT !.previousInput = synthesiserParameters.delayTime,
                       !.previousOutput = synthesiserParameters.delayTime]
    /\ delayFilter =
           CascadeFilterSetCornerFrequency(
               ZeroCascade, synthesiserParameters.delayFilterFrequency, SAMPLE_FREQUENCY,
               FALSE, 3)
    /\ delayBuffer = [i \in 0 .. (DELAY_BUFFER_SIZE - 1) |-> 0]
    /\ delayBufferIndex \in 0 .. (DELAY_BUFFER_SIZE - 1)
    /\ lastReadIndex = 0
    /\ output = One
    /\ lfoPeriodClock = 0
    /\ vcoPeriodClock = 0
    /\ gateGain = One
    /\ lfoWaveform = 0
    /\ vcoModulatedFrequency = 0
    /\ buffer = 0
    /\ SPI1BUF = 0
    /\ SPI1TXIF = FALSE
    /\ T1IF = TRUE
    /\ spiPc = "idle"
    /\ t1Pc = "delay"
    /\ mainPc = "initialise"
    /\ uiParameters = ZeroParameters
    /\ uiTrigger = FALSE
    /\ uiGate = FALSE
    /\ copyIndex = 0
    /\ clearingStoreEmitted = TRUE
    /\ periods = 1
    /\ passes = 0
    /\ samples = 0
    /\ published = {synthesiserParameters}
    /\ lastPublished = synthesiserParameters
    /\ written = <<0>>
    /\ computed = <<>>
    /\ computePeriod = 1
    /\ overrun = FALSE
    /\ missed = 0
    /\ triggerCalled = FALSE
    /\ sampleTriggered = FALSE
    /\ lfoEvaluatedAt = 0
    /\ oneBitNoise = OneBitNoiseStatics
    /\ NoCalls

\* The next sample: the stages before the delay stage hand it 0.0
DelayStageInput ==
    /\ t1Pc = "clear"
    /\ samples < MaxSamples
    /\ output' = 0
    /\ computePeriod' = computePeriod + 1
    /\ t1Pc' = "delay"
    /\ UNCHANGED <<synthVars, gateGainLowPassFilter, delayBuffer, delayBufferIndex,
                   delayTimeLowPassFilter, delayFilter, lfoPeriodClock, vcoPeriodClock,
                   gateGain, lfoWaveform, vcoModulatedFrequency, dacVars, spiPc, mainPc,
                   uiVars, clearingStoreEmitted, oneBitNoise, callVars, periods, passes, samples, lastReadIndex,
                   parameterHistory, written, computed, overrun, missed, triggerHistory>>

NextDelay == AudioUpdateDelay \/ DelayStageInput

SpecDelay == InitDelay /\ [][NextDelay]_vars

\* ------------------------------------------------------------------------
\* The delay stage driven by the stages before it: lines 189 to 196 of
\* AudioUpdate with the delay time settled, after any number of earlier samples

\* Delay times of 0, 1 and 2 sample periods and of the whole buffer; feedback
\* of 0, 0.5 and 1; no delay filter and the low-pass delay filter
FeedbackSnapshots ==
    {[DEFAULT_SYTHESISER_PARAMETERS EXCEPT
          !.delayTime = delayTime, !.delayFeedback = feedback,
          !.delayFilterType = type, !.delayFilterFrequency = 1000] :
        delayTime \in {0, 2, 4, DELAY_BUFFER_SIZE * (TimeOne \div SAMPLE_FREQUENCY)},
        feedback \in {0, One \div 2, One},
        type \in {"DelayFilterTypeNone", "DelayFilterTypeLowPass"}}

\* What line 186 hands to the delay stage: a waveform in [-1, 1] times a gate
\* gain in [0, 1] times 0.25
DryLevels == {-(One \div 4), 0, One \div 4}

\* What earlier samples have left in the delay buffer: silence, or the level
\* that a sustained dry signal of 0.25 or -0.25 with full feedback settles at
BufferLevels == {-(5 * (One \div 4)), 0, 5 * (One \div 4)}

\* AudioUpdate is at line 189
InitFeedback ==
    /\ synthesiserParameters \in FeedbackSnapshots
    /\ pendingSynthesiserParameters = synthesiserParameters
    /\ newSynthesiserParametersPending = FALSE
    /\ trigger = FALSE
    /\ gate = TRUE
    /\ gateGainLowPassFilter =
           FirstOrderFilterSetCornerFrequency(ZeroFilter, 100, SAMPLE_FREQUENCY, FALSE)
    /\ delayTimeLowPassFilter =
           [FirstOrderFilterSetCornerFrequency(ZeroFilter, 1, SAMPLE_FREQUENCY, FALSE)
                EXCEPT !.previousInput = synthesiserParameters.delayTime,
                       !.previousOutput = synthesiserParameters.delayTime]
    /\ delayFilter =
           CascadeFilterSetCornerFrequency(
               ZeroCascade, synthesiserParameters.delayFilterFrequency, SAMPLE_FREQUENCY,
               synthesiserParameters.delayFilterType = "DelayFilterTypeHighPass", 3)
    /\ \E level \in BufferLevels : delayBuffer = [i \in 0 .. (DELAY_BUFFER_SIZE - 1) |-> level]
    /\ delayBufferIndex \in 0 .. (DELAY_BUFFER_SIZE - 1)
    /\ lastReadIndex = 0
    /\ output \in DryLevels
    /\ lfoPeriodClock = 0
    /\ vcoPeriodClock = 0
    /\ gateGain = One
    /\ lfoWaveform = 0
    /\ vcoModulatedFrequency = 0
    /\ buffer = 0
    /\ SPI1BUF = 0
    /\ SPI1TXIF = FALSE
    /\ T1IF = TRUE
    /\ spiPc = "idle"
    /\ t1Pc = "delay"
    /\ mainPc = "initialise"
    /\ uiParameters = ZeroParameters
    /\ uiTrigger = FALSE
    /\ uiGate = FALSE
    /\ copyIndex = 0
    /\ clearingStoreEmitted = TRUE
    /\ periods = 1
    /\ passes = 0
    /\ samples = 0
    /\ published = {synthesiserParameters}
    /\ lastPublished = synthesiserParameters
    /\ written = <<0>>
    /\ computed = <<>>
    /\ computePeriod = 1
    /\ overrun = FALSE
    /\ missed = 0
    /\ triggerCalled = FALSE
    /\ sampleTriggered = FALSE
    /\ lfoEvaluatedAt = 0
    /\ oneBitNoise = OneBitNoiseStatics
    /\ NoCalls

\* The next sample: the stages before the delay stage hand it a dry level
DelayStageDrive ==
    /\ t1Pc = "clear"
    /\ samples < MaxSamples
    /\ output' \in DryLevels
    /\ computePeriod' = computePeriod + 1
    /\ t1Pc' = "delay"
    /\ UNCHANGED <<synthVars, gateGainLowPassFilter, delayBuffer, delayBufferIndex,
                   delayTimeLowPassFilter, delayFilter, lfoPeriodClock, vcoPeriodClock,
                   gateGain, lfoWaveform, vcoModulatedFrequency, dacVars, spiPc, mainPc,
                   uiVars, clearingStoreEmitted, oneBitNoise, callVars, periods, passes, samples, lastReadIndex,
                   parameterHistory, written, computed, overrun, missed, triggerHistory>>

NextFeedback == AudioUpdateDelay \/ DelayStageDrive

SpecFeedback == InitFeedback /\ [][NextFeedback]_vars

\* ------------------------------------------------------------------------
\* The filters on their own: a CascadeFilter and a FirstOrderFilter, both
\* zeroed and set to the same corner frequency, sample frequency and pass
\* mode, then updated with the same inputs

\* Number of calls of a function on its own that are followed
MaxCalls == 3

\* Stage counts asked for: 0, the counts of the array, counts above it, and
\* the patterns of 0xFFFFFFFF and 0x80000001
StageCounts == {0, 1, 2, 3, 4, 2147483647, -1, -2147483647}

CornerFrequencies == {1, 100, 1000}

FilterInputs == {-One, 0, One \div 2, One}

\* The synthesiser is as SynthesiserInitialise leaves it, with no interrupt
\* raised
InitFilter ==
    /\ synthesiserParameters = DEFAULT_SYTHESISER_PARAMETERS
    /\ pendingSynthesiserParameters = synthesiserParameters
    /\ newSynthesiserParametersPending = FALSE
    /\ trigger = FALSE
    /\ gate = TRUE
    /\ gateGainLowPassFilter =
           FirstOrderFilterSetCornerFrequency(ZeroFilter, 100, SAMPLE_FREQUENCY, FALSE)
    /\ delayTimeLowPassFilter =
           FirstOrderFilterSetCornerFrequency(ZeroFilter, 1, SAMPLE_FREQUENCY, FALSE)
    /\ delayFilter =
           CascadeFilterSetCornerFrequency(
               ZeroCascade, synthesiserParameters.delayFilterFrequency, SAMPLE_FREQUENCY,
               FALSE, 3)
    /\ delayBuffer = [i \in 0 .. (DELAY_BUFFER_SIZE - 1) |-> 0]
    /\ delayBufferIndex = 0
    /\ lastReadIndex = 0
    /\ output = 0
    /\ lfoPeriodClock = 0
    /\ vcoPeriodClock = 0
    /\ gateGain = 0
    /\ lfoWaveform = 0
    /\ vcoModulatedFrequency = 0
    /\ buffer = 0
    /\ SPI1BUF = 0
    /\ SPI1TXIF = FALSE
    /\ T1IF = FALSE
    /\ spiPc = "idle"
    /\ t1Pc = "idle"
    /\ mainPc = "initialise"
    /\ uiParameters = ZeroParameters
    /\ uiTrigger = FALSE
    /\ uiGate = FALSE
    /\ copyIndex = 0
    /\ clearingStoreEmitted = TRUE
    /\ periods = 0
    /\ passes = 0
    /\ samples = 0
    /\ published = {}
    /\ lastPublished = DEFAULT_SYTHESISER_PARAMETERS
    /\ written = <<>>
    /\ computed = <<>>
    /\ computePeriod = 0
    /\ overrun = FALSE
    /\ missed = 0
    /\ triggerCalled = FALSE
    /\ sampleTriggered = FALSE
    /\ lfoEvaluatedAt = 0
    /\ oneBitNoise = OneBitNoiseStatics
    /\ requestedStages \in StageCounts
    /\ \E cornerFrequency \in CornerFrequencies, isHighPass \in BOOLEAN :
        /\ cascade = CascadeFilterSetCornerFrequency(
                         ZeroCascade, cornerFrequency, SAMPLE_FREQUENCY, isHighPass,
                         requestedStages)
        /\ single = FirstOrderFilterSetCornerFrequency(
                        ZeroFilter, cornerFrequency, SAMPLE_FREQUENCY, isHighPass)
    /\ cascadeReturned = 0
    /\ singleReturned = 0
    /\ noiseFrequency = 0
    /\ noiseHistory = <<>>
    /\ calls = 0

\* CascadeFilterUpdate and FirstOrderFilterUpdate with one input
FilterPairUpdate ==
    /\ calls < MaxCalls
    /\ \E input \in FilterInputs :
        LET updatedCascade == CascadeFilterUpdate(cascade, input)
            updatedSingle == FirstOrderFilterUpdate(single, input)
        IN  /\ cascade' = updatedCascade.filter
            /\ cascadeReturned' = updatedCascade.output
            /\ single' = updatedSingle
            /\ singleReturned' = updatedSingle.previousOutput
    /\ calls' = calls + 1
    /\ UNCHANGED <<synthVars, dspVars, dacVars, pcVars, uiVars, clearingStoreEmitted,
                   historyVars, oneBitNoise, requestedStages, noiseFrequency, noiseHistory>>

NextFilter == FilterPairUpdate

SpecFilter == InitFilter /\ [][NextFilter]_vars

\* ------------------------------------------------------------------------
\* The VCO on its own: AudioUpdate at the switch of line 157, for each VCO
\* waveform, with the phase and the modulated frequency drawn from bounded sets

VcoWaveforms ==
    {"VcoWaveformSine", "VcoWaveformTriangle", "VcoWaveformSawtooth", "VcoWaveformSquare",
     "VcoWaveformPulse", "VcoWaveformOneBitNoise"}

VcoSnapshots ==
    {[DEFAULT_SYTHESISER_PARAMETERS EXCEPT !.vcoWaveform = waveform] : waveform \in VcoWaveforms}

\* Phases on both sides of 0.05, 0.5 and 0.95, and the ends of the period
VcoPhases ==
    {0, PhaseOne \div 40, PhaseOne \div 20, PhaseOne \div 4, 3 * (PhaseOne \div 8),
     PhaseOne \div 2, 3 * (PhaseOne \div 4), 19 * (PhaseOne \div 20),
     39 * (PhaseOne \div 40), PhaseOne}

\* Frequencies: negative, zero, on both sides of MINIMUM_FREQUENCY, with
\* MAXIMUM_FREQUENCY / frequency from 200 down to 1, and from
\* MAXIMUM_FREQUENCY up
VcoFrequencies ==
    {-100, 0, MINIMUM_FREQUENCY \div 2, MINIMUM_FREQUENCY - 1, MINIMUM_FREQUENCY,
     MINIMUM_FREQUENCY + 1, MAXIMUM_FREQUENCY \div 200, MAXIMUM_FREQUENCY \div 7,
     MAXIMUM_FREQUENCY \div 5, MAXIMUM_FREQUENCY \div 4, MAXIMUM_FREQUENCY \div 3,
     MAXIMUM_FREQUENCY \div 2, MAXIMUM_FREQUENCY \div 2 + 1, 3 * (MAXIMUM_FREQUENCY \div 4),
     MAXIMUM_FREQUENCY - 1, MAXIMUM_FREQUENCY, MAXIMUM_FREQUENCY + 1, 2 * MAXIMUM_FREQUENCY}

\* AudioUpdate is at line 157
InitVco ==
    /\ synthesiserParameters \in VcoSnapshots
    /\ pendingSynthesiserParameters = synthesiserParameters
    /\ newSynthesiserParametersPending = FALSE
    /\ trigger = FALSE
    /\ gate = TRUE
    /\ gateGainLowPassFilter =
           FirstOrderFilterSetCornerFrequency(ZeroFilter, 100, SAMPLE_FREQUENCY, FALSE)
    /\ delayTimeLowPassFilter =
           FirstOrderFilterSetCornerFrequency(ZeroFilter, 1, SAMPLE_FREQUENCY, FALSE)
    /\ delayFilter =
           CascadeFilterSetCornerFrequency(
               ZeroCascade, synthesiserParameters.delayFilterFrequency, SAMPLE_FREQUENCY,
               FALSE, 3)
    /\ delayBuffer = [i \in 0 .. (DELAY_BUFFER_SIZE - 1) |-> 0]
    /\ delayBufferIndex = 0
    /\ lastReadIndex = 0
    /\ output = 0
    /\ lfoPeriodClock = 0
    /\ vcoPeriodClock \in VcoPhases
    /\ gateGain = One
    /\ lfoWaveform = 0
    /\ vcoModulatedFrequency \in VcoFrequencies
    /\ buffer = 0
    /\ SPI1BUF = 0
    /\ SPI1TXIF = FALSE
    /\ T1IF = TRUE
    /\ spiPc = "idle"
    /\ t1Pc = "vco"
    /\ mainPc = "initialise"
    /\ uiParameters = ZeroParameters
    /\ uiTrigger = FALSE
    /\ uiGate = FALSE
    /\ copyIndex = 0
    /\ clearingStoreEmitted = TRUE
    /\ periods = 1
    /\ passes = 0
    /\ samples = 0
    /\ published = {synthesiserParameters}
    /\ lastPublished = synthesiserParameters
    /\ written = <<0>>
    /\ computed = <<>>
    /\ computePeriod = 1
    /\ overrun = FALSE
    /\ missed = 0
    /\ triggerCalled = FALSE
    /\ sampleTriggered = FALSE
    /\ lfoEvaluatedAt = 0
    /\ oneBitNoise = OneBitNoiseStatics
    /\ NoCalls

NextVco == AudioUpdateVco

SpecVco == InitVco /\ [][NextVco]_vars

\* ------------------------------------------------------------------------
\* The one-bit noise generator on its own: WaveformsOneBitNoise called again
\* and again with one frequency, from the statics' initial values

MaxNoiseCalls == 8

\* Frequencies: negative with a quotient in (-1, 0), negative with a quotient
\* of -1 and below, zero, and positive with floor(SAMPLE_FREQUENCY / frequency)
\* of 960, 4, 3, 2, 1, 1, 0 and 0
NoiseFrequencies ==
    {-(2 * SAMPLE_FREQUENCY), -SAMPLE_FREQUENCY, -100, 0, 100, SAMPLE_FREQUENCY \div 4,
     SAMPLE_FREQUENCY \div 3, SAMPLE_FREQUENCY \div 2, SAMPLE_FREQUENCY \div 2 + 1,
     SAMPLE_FREQUENCY, SAMPLE_FREQUENCY + 1, 2 * SAMPLE_FREQUENCY}

InitNoise ==
    /\ synthesiserParameters = DEFAULT_SYTHESISER_PARAMETERS
    /\ pendingSynthesiserParameters = synthesiserParameters
    /\ newSynthesiserParametersPending = FALSE
    /\ trigger = FALSE
    /\ gate = TRUE
    /\ gateGainLowPassFilter =
           FirstOrderFilterSetCornerFrequency(ZeroFilter, 100, SAMPLE_FREQUENCY, FALSE)
    /\ delayTimeLowPassFilter =
           FirstOrderFilterSetCornerFrequency(ZeroFilter, 1, SAMPLE_FREQUENCY, FALSE)
    /\ delayFilter =
           CascadeFilterSetCornerFrequency(
               ZeroCascade, synthesiserParameters.delayFilterFrequency, SAMPLE_FREQUENCY,
               FALSE, 3)
    /\ delayBuffer = [i \in 0 .. (DELAY_BUFFER_SIZE - 1) |-> 0]
    /\ delayBufferIndex = 0
    /\ lastReadIndex = 0
    /\ output = 0
    /\ lfoPeriodClock = 0
    /\ vcoPeriodClock = 0
    /\ gateGain = 0
    /\ lfoWaveform = 0
    /\ vcoModulatedFrequency = 0
    /\ buffer = 0
    /\ SPI1BUF = 0
    /\ SPI1TXIF = FALSE
    /\ T1IF = FALSE
    /\ spiPc = "idle"
    /\ t1Pc = "idle"
    /\ mainPc = "initialise"
    /\ uiParameters = ZeroParameters
    /\ uiTrigger = FALSE
    /\ uiGate = FALSE
    /\ copyIndex = 0
    /\ clearingStoreEmitted = TRUE
    /\ periods = 0
    /\ passes = 0
    /\ samples = 0
    /\ published = {}
    /\ lastPublished = DEFAULT_SYTHESISER_PARAMETERS
    /\ written = <<>>
    /\ computed = <<>>
    /\ computePeriod = 0
    /\ overrun = FALSE
    /\ missed = 0
    /\ triggerCalled = FALSE
    /\ sampleTriggered = FALSE
    /\ lfoEvaluatedAt = 0
    /\ oneBitNoise = OneBitNoiseStatics
    /\ cascade = ZeroCascade
    /\ single = ZeroFilter
    /\ requestedStages = 0
    /\ cascadeReturned = 0
    /\ singleReturned = 0
    /\ noiseFrequency \in NoiseFrequencies
    /\ noiseHistory = <<>>
    /\ calls = 0

\* One call: what it returned, whether the shift register stepped, and how
\* the quotient converted
OneBitNoiseCall ==
    /\ calls < MaxNoiseCalls
    /\ \E converted \in OutOfRangeConversions :
        LET samplesPerUpdate == SamplesPerUpdate(noiseFrequency, SAMPLE_FREQUENCY, converted)
            called == WaveformsOneBitNoise(oneBitNoise, noiseFrequency, SAMPLE_FREQUENCY,
                                           converted)
        IN  /\ oneBitNoise' = called
            /\ noiseHistory' =
                   Append(noiseHistory,
                          [returned |-> called.returnValue,
                           stepped |-> OneBitNoiseUpdates(oneBitNoise, samplesPerUpdate),
                           quotient |-> QuotientConversion(noiseFrequency, SAMPLE_FREQUENCY)])
    /\ calls' = calls + 1
    /\ UNCHANGED <<synthVars, dspVars, dacVars, pcVars, uiVars, clearingStoreEmitted,
                   historyVars, cascade, single, requestedStages, cascadeReturned,
                   singleReturned, noiseFrequency>>

NextNoise == OneBitNoiseCall

SpecNoise == InitNoise /\ [][NextNoise]_vars

\* ------------------------------------------------------------------------
\* The LFO on its own: AudioUpdate at the switch of line 128, sample after
\* sample, with no trigger pending and no new parameters

\* Number of samples the LFO is followed for
MaxLfoSamples == 20

\* A square LFO of 1 Hz with equal halves
SquareOneHertz ==
    [DEFAULT_SYTHESISER_PARAMETERS EXCEPT
        !.lfoWaveform = "LfoWaveformSquare", !.lfoShape = PhaseOne \div 2, !.lfoFrequency = 1]

\* The square LFO at sample 0 and shortly before samples 48000 and 96000 of
\* its first period, where n additions of 1 / SAMPLE_FREQUENCY have made the
\* phase n / SAMPLE_FREQUENCY; the gated LFO of 5 Hz shortly before the phase
\* at which the gate closes, and shortly before the end of its period; the
\* LFO of the defaults, without gate control, shortly before the end of its
\* period; the gated LFO of 200 Hz at phase 0
LfoStarts ==
    {[parameters |-> SquareOneHertz, samples |-> n, lfoPeriodClock |-> n] :
        n \in {0, PhaseOne \div 2 - 10, PhaseOne - 10}}
    \cup
    {[parameters |-> SlowGated, samples |-> 0, lfoPeriodClock |-> phase] :
        phase \in {PhaseOne - (PREEMPTIVE_GATE_PERIOD + 10) * SlowGated.lfoFrequency,
                   PhaseOne - 10 * SlowGated.lfoFrequency}}
    \cup
    {[parameters |-> DEFAULT_SYTHESISER_PARAMETERS, samples |-> 0,
      lfoPeriodClock |-> PhaseOne - 10 * DEFAULT_SYTHESISER_PARAMETERS.lfoFrequency],
     [parameters |-> FastGated, samples |-> 0, lfoPeriodClock |-> 0]}

\* AudioUpdate is at line 128
InitLfo ==
    /\ \E start \in LfoStarts :
        /\ synthesiserParameters = start.parameters
        /\ lfoPeriodClock = start.lfoPeriodClock
        /\ samples = start.samples
    /\ pendingSynthesiserParameters = synthesiserParameters
    /\ newSynthesiserParametersPending = FALSE
    /\ trigger = FALSE
    /\ gate = TRUE
    /\ gateGainLowPassFilter =
           FirstOrderFilterSetCornerFrequency(ZeroFilter, 100, SAMPLE_FREQUENCY, FALSE)
    /\ delayTimeLowPassFilter =
           FirstOrderFilterSetCornerFrequency(ZeroFilter, 1, SAMPLE_FREQUENCY, FALSE)
    /\ delayFilter =
           CascadeFilterSetCornerFrequency(
               ZeroCascade, synthesiserParameters.delayFilterFrequency, SAMPLE_FREQUENCY,
               FALSE, 3)
    /\ delayBuffer = [i \in 0 .. (DELAY_BUFFER_SIZE - 1) |-> 0]
    /\ delayBufferIndex = 0
    /\ lastReadIndex = 0
    /\ output = 0
    /\ lfoEvaluatedAt = 0
    /\ vcoPeriodClock = 0
    /\ gateGain = One
    /\ lfoWaveform = 0
    /\ vcoModulatedFrequency = 0
    /\ buffer = 0
    /\ SPI1BUF = 0
    /\ SPI1TXIF = FALSE
    /\ T1IF = TRUE
    /\ spiPc = "idle"
    /\ t1Pc = "lfo"
    /\ mainPc = "initialise"
    /\ uiParameters = ZeroParameters
    /\ uiTrigger = FALSE
    /\ uiGate = FALSE
    /\ copyIndex = 0
    /\ clearingStoreEmitted = TRUE
    /\ periods = 1
    /\ passes = 0
    /\ published = {synthesiserParameters}
    /\ lastPublished = synthesiserParameters
    /\ written = <<0>>
    /\ computed = <<>>
    /\ computePeriod = 1
    /\ overrun = FALSE
    /\ missed = 0
    /\ triggerCalled = FALSE
    /\ sampleTriggered = FALSE
    /\ oneBitNoise = OneBitNoiseStatics
    /\ NoCalls


\* The statements of AudioUpdate after line 153 and, in the next sample, before
\* line 128, with no trigger pending and no new parameters: none of them
\* writes lfoPeriodClock, the gate or the active snapshot
LfoNextSample ==
    /\ t1Pc = "vco"
    /\ calls < MaxLfoSamples
    /\ t1Pc' = "lfo"
    /\ samples' = samples + 1
    /\ calls' = calls + 1
    /\ UNCHANGED <<synthVars, dspVars, dacVars, spiPc, mainPc, uiVars, clearingStoreEmitted,
                   oneBitNoise, cascade, single, requestedStages, cascadeReturned,
                   singleReturned, noiseFrequency, noiseHistory, periods, passes,
                   lastReadIndex, parameterHistory, sampleHistory, triggerHistory>>

SpecLfo == InitLfo /\ [][AudioUpdateLfo \/ LfoNextSample]_vars

\* ------------------------------------------------------------------------
\* The shift register of WaveformsOneBitNoise on its own: calls at a frequency
\* above the sample frequency, each of which steps the register

\* Number of steps followed: the number of non-zero 16-bit values
MaxLfsrSteps == 65535

InitLfsr ==
    /\ InitNoise
    /\ noiseFrequency = 2 * SAMPLE_FREQUENCY

LfsrStep ==
    /\ calls < MaxLfsrSteps
    /\ \E converted \in OutOfRangeConversions :
           oneBitNoise' = WaveformsOneBitNoise(oneBitNoise, noiseFrequency, SAMPLE_FREQUENCY,
                                               converted)
    /\ calls' = calls + 1
    /\ UNCHANGED <<synthVars, dspVars, dacVars, pcVars, uiVars, clearingStoreEmitted,
                   historyVars, cascade, single, requestedStages, cascadeReturned,
                   singleReturned, noiseFrequency, noiseHistory>>

SpecLfsr == InitLfsr /\ [][LfsrStep]_vars

\* ------------------------------------------------------------------------
\* The interrupts alone, with the sample that the next compute phase hands to
\* DacWriteBuffer drawn from a bounded set

\* Samples inside [-1, 1], at its ends and outside it, up to the 1.5 that the
\* sum of line 196 can reach
DacSamples ==
    {-(3 * (One \div 2)), -(One + 1), -One, -(One \div 2), -1, 0, 1, One \div 2, One,
     One + 1, 3 * (One \div 2)}

InitDac ==
    /\ synthesiserParameters = ZeroParameters
    /\ pendingSynthesiserParameters = Still
    /\ newSynthesiserParametersPending = TRUE
    /\ trigger = FALSE
    /\ gate = TRUE
    /\ gateGainLowPassFilter =
           FirstOrderFilterSetCornerFrequency(ZeroFilter, 100, SAMPLE_FREQUENCY, FALSE)
    /\ delayTimeLowPassFilter =
           FirstOrderFilterSetCornerFrequency(ZeroFilter, 1, SAMPLE_FREQUENCY, FALSE)
    /\ delayFilter = ZeroCascade
    /\ delayBuffer = [i \in 0 .. (DELAY_BUFFER_SIZE - 1) |-> 0]
    /\ delayBufferIndex = 0
    /\ lastReadIndex = 0
    /\ output \in DacSamples
    /\ lfoPeriodClock = 0
    /\ vcoPeriodClock = 0
    /\ gateGain = 0
    /\ lfoWaveform = 0
    /\ vcoModulatedFrequency = 0
    /\ buffer = 0
    /\ SPI1BUF = 0
    /\ SPI1TXIF = FALSE
    /\ T1IF = FALSE
    /\ spiPc = "idle"
    /\ t1Pc = "idle"
    /\ mainPc = "initialise"
    /\ uiParameters = ZeroParameters
    /\ uiTrigger = FALSE
    /\ uiGate = FALSE
    /\ copyIndex = 0
    /\ clearingStoreEmitted = TRUE
    /\ periods = 0
    /\ passes = 0
    /\ samples = 0
    /\ published = {pendingSynthesiserParameters}
    /\ lastPublished = pendingSynthesiserParameters
    /\ written = <<>>
    /\ computed = <<>>
    /\ computePeriod = 0
    /\ overrun = FALSE
    /\ missed = 0
    /\ triggerCalled = FALSE
    /\ sampleTriggered = FALSE
    /\ lfoEvaluatedAt = 0
    /\ oneBitNoise = OneBitNoiseStatics
    /\ NoCalls


SpecDac == InitDac /\ [][NextSample]_vars

\* ------------------------------------------------------------------------
\* Properties

\* Positions of AudioUpdate after the adoption of the parameters
AfterAdoption == {"trigger", "lfo", "vco", "gate", "delay", "clear"}

\* Output of the last completed AudioUpdate, 0.0 before the first
PreviousOutput == IF computed = <<>> THEN 0 ELSE computed[Len(computed)].output

\* C1: at every position of a compute phase at which parameters are read, the
\* active snapshot is one snapshot handed to a completed call of
\* SynthesiserSetParameters, or the defaults: never a mix of two snapshots
C1_AdoptionIsAtomic ==
    t1Pc \in AfterAdoption =>
        synthesiserParameters \in published \cup {DEFAULT_SYTHESISER_PARAMETERS}

\* The same with the stores of SynthesiserSetParameters emitted as written
C1_AdoptionIsAtomicInProgramOrder == clearingStoreEmitted => C1_AdoptionIsAtomic

\* C1: a compute phase has preempted the copy of a snapshot that is then half
\* written, while an earlier publication was still pending
C1_PreemptedCopy ==
    /\ t1Pc \in AfterAdoption
    /\ mainPc = "copy"
    /\ published # {}
    /\ pendingSynthesiserParameters \notin Presets \cup {DEFAULT_SYTHESISER_PARAMETERS}

\* C2: when the last call of SynthesiserSetParameters has returned and no call
\* is in progress, a compute phase past its adoption step has the snapshot of
\* that call (the defaults before any call) as its active snapshot and the
\* pending flag is clear
C2_NextComputeAdopts ==
    (t1Pc \in AfterAdoption /\ mainPc \notin {"copy", "publish"}) =>
        /\ synthesiserParameters = lastPublished
        /\ ~newSynthesiserParametersPending

\* C2: the second compute phase has just adopted a published snapshot
C2_Adopted ==
    /\ t1Pc = "trigger"
    /\ samples = 1
    /\ mainPc = "tasks"
    /\ lastPublished \in Presets
    /\ synthesiserParameters = lastPublished

\* C3: the compute interrupt is raised by the SPI TX interrupt only after it has
\* written the buffered value to SPI1BUF; the first step of AudioUpdate writes
\* the DAC buffer with the output of the previous AudioUpdate and changes
\* nothing else; the active snapshot and the phase, filter and delay-buffer
\* state change only after it
C3_HandOffFirst ==
    [][/\ (~T1IF /\ T1IF') => (spiPc = "trigger" /\ SPI1BUF = buffer /\ Len(written) = periods)
       /\ (t1Pc = "idle" /\ t1Pc' # "idle") =>
              /\ buffer' = DacCode(PreviousOutput)
              /\ UNCHANGED <<synthesiserParameters, dspVars>>
       /\ (synthesiserParameters' # synthesiserParameters \/ dspVars' # dspVars) =>
              t1Pc \in {"parameters"} \cup AfterAdoption]_vars

\* C3: the third compute phase has handed over a non-zero sample, after three
\* writes of SPI1BUF
C3_HandedOver ==
    /\ t1Pc = "parameters"
    /\ Len(written) = 3
    /\ samples = 2
    /\ buffer # 0
    /\ buffer = DacCode(PreviousOutput)

\* C5: a raised SPI TX interrupt is taken whatever the compute phase and the
\* control loop are doing, and the step after it is raised is the write of the
\* buffered sample to SPI1BUF, with no step of AudioUpdate or of the control
\* loop before it
C5_OutputNeverDelayed ==
    /\ []((SPI1TXIF /\ spiPc = "idle") => Taken("SPI1TX"))
    /\ [][(SPI1TXIF /\ spiPc = "idle") =>
              /\ spiPc' = "trigger"
              /\ SPI1BUF' = buffer
              /\ UNCHANGED <<t1Pc, mainPc, synthVars, dspVars, buffer>>]_vars

\* C5: the output phase has preempted a compute phase that had preempted the
\* copy of a snapshot
C5_PreemptedBoth ==
    /\ spiPc = "trigger"
    /\ t1Pc = "gate"
    /\ mainPc = "copy"
    /\ copyIndex = 5

\* Compute phases begun
Starts == samples + (IF t1Pc \in {"parameters", "trigger", "lfo", "vco", "gate", "delay"} THEN 1 ELSE 0)

\* Compute requests raised
Requests == Len(written) - (IF spiPc = "trigger" THEN 1 ELSE 0)

\* C4, as stated: while no compute phase has outlasted its period, the output
\* phase of period n + 1 writes the sample computed in period n
C4_LatencyOnePeriod ==
    ~overrun =>
        \A n \in 1 .. Len(computed) :
            /\ computed[n].period = n
            /\ (n + 1 <= Len(written)) => written[n + 1] = DacCode(computed[n].output)

\* C4, amended: while no compute phase has outlasted its period, the sample
\* computed in period n is handed to the DAC buffer by the compute phase of
\* period n + 1 and written to SPI1BUF by the output phase of period n + 2
C4_LatencyTwoPeriods ==
    ~overrun =>
        /\ \A n \in 1 .. Len(computed) :
               /\ computed[n].period = n
               /\ (n + 2 <= Len(written)) => written[n + 2] = DacCode(computed[n].output)
        /\ \A n \in 1 .. Len(written) : n <= 2 => written[n] = 0

\* C4: the output phase of period 3 has written the non-zero sample computed in
\* period 1
C4_WrittenTwoPeriodsLater ==
    /\ ~overrun
    /\ Len(written) = 3
    /\ Len(computed) >= 2
    /\ computed[1].period = 1
    /\ computed[1].output # 0
    /\ computed[2].output # computed[1].output
    /\ written[3] = DacCode(computed[1].output)
    /\ SPI1BUF = written[3]

\* C6: an output-phase interrupt raised while a compute phase runs is taken
\* and writes the buffered sample; the request it raises is dropped when the
\* running compute phase ends, so that every request either begins one
\* compute phase, or was raised during one, or is the one waiting; compute
\* phases begin in distinct periods, each after the output phase of its
\* period; every raised output-phase interrupt leads to its write, every
\* request raised while no compute phase runs leads to a compute phase, and
\* every compute phase ends
C6_MissedDeadlineIsGlitch ==
    /\ []((SPI1TXIF /\ spiPc = "idle" /\ t1Pc # "idle") => Taken("SPI1TX"))
    /\ [][(spiPc = "idle" /\ spiPc' = "trigger") => SPI1BUF' = buffer]_vars
    /\ [][(t1Pc = "clear" /\ t1Pc' = "idle") => ~T1IF']_vars
    /\ [](Requests = Starts + missed + (IF T1IF /\ t1Pc = "idle" THEN 1 ELSE 0))
    /\ [](\A i, j \in 1 .. Len(computed) : i < j => computed[i].period < computed[j].period)
    /\ [][(t1Pc = "idle" /\ t1Pc' # "idle") => Len(written) = periods]_vars
    /\ ((SPI1TXIF /\ spiPc = "idle") ~> (spiPc = "trigger"))
    /\ ((T1IF /\ t1Pc = "idle") ~> (t1Pc = "parameters"))
    /\ ((t1Pc # "idle") ~> (t1Pc = "idle"))

\* C6: the compute phase of period 1 outlasted its period, the request of
\* period 2 was dropped, and the compute phase of period 3 has begun
C6_ResumedAfterMiss ==
    /\ missed = 1
    /\ samples = 1
    /\ computed[1].period = 1
    /\ t1Pc = "parameters"
    /\ computePeriod = 3
    /\ Len(written) = 3

\* C7, as stated: the first compute phase after a call of SynthesiserTrigger
\* evaluates the LFO at phase 0 and feeds the gate filter with 1.0
C7_TriggerOpensGate ==
    /\ (sampleTriggered /\ t1Pc \in {"vco", "gate", "delay", "clear"}) => lfoEvaluatedAt = 0
    /\ (sampleTriggered /\ t1Pc \in {"delay", "clear"}) =>
           gateGainLowPassFilter.previousInput = One

\* C7, amended: that compute phase evaluates the LFO at phase 0, and feeds the
\* gate filter with 1.0 unless LFO gate control is enabled and
\* lfoFrequency / SAMPLE_FREQUENCY >= 1 - 0.01 * lfoFrequency, when the test of
\* line 149 closes the gate again in the same sample and the filter is fed 0.0
C7_TriggerOpensGateUnlessClosed ==
    /\ (sampleTriggered /\ t1Pc \in {"vco", "gate", "delay", "clear"}) => lfoEvaluatedAt = 0
    /\ (sampleTriggered /\ t1Pc \in {"delay", "clear"}) =>
           gateGainLowPassFilter.previousInput =
               IF /\ synthesiserParameters.lfoGateControl
                  /\ synthesiserParameters.lfoFrequency * (1 + PREEMPTIVE_GATE_PERIOD)
                         >= PhaseOne
               THEN 0 ELSE One

\* C7: a compute phase that consumed a trigger under a gate-controlled snapshot
\* with a slow LFO, after the LFO had advanced: phase 0, gate fed 1.0
C7_Triggered ==
    /\ sampleTriggered
    /\ t1Pc = "delay"
    /\ samples >= 1
    /\ synthesiserParameters = SlowGated
    /\ lfoEvaluatedAt = 0
    /\ gateGainLowPassFilter.previousInput = One

\* C8, as stated: after a compute phase both phases are in [0, 1)
C8_PhasesBelowOne ==
    t1Pc = "clear" =>
        /\ 0 <= lfoPeriodClock /\ lfoPeriodClock < PhaseOne
        /\ 0 <= vcoPeriodClock /\ vcoPeriodClock < PhaseOne

\* C8, amended: both phases are in [0, 1] after every compute phase, for
\* positive, zero and negative increments, and a phase whose advance lands
\* exactly on 1 stays at 1
C8_PhasesUpToOne ==
    /\ 0 <= lfoPeriodClock /\ lfoPeriodClock <= PhaseOne
    /\ 0 <= vcoPeriodClock /\ vcoPeriodClock <= PhaseOne
    /\ \A phase \in SamplePhases, parameters \in SampleSnapshots :
           LET advanced == phase + parameters.vcoFrequency
               limited == WaveformsLimitNormalisedPeriod(advanced)
           IN  /\ 0 <= limited /\ limited <= PhaseOne
               /\ (advanced = PhaseOne) => (limited = PhaseOne)

\* C8: the first compute phase has ended with the LFO phase and the VCO phase
\* both landed exactly on 1
C8_LandedOnOne ==
    /\ t1Pc = "clear"
    /\ samples = 1
    /\ synthesiserParameters = Rising
    /\ vcoPeriodClock = PhaseOne
    /\ lfoPeriodClock = PhaseOne

\* C9: the index at which ReadFromDelayBuffer reads is in [0, capacity - 1],
\* at every read of a compute phase and for every write cursor and smoothed
\* delay time of the bounded sets
C9_ReadIndexInBuffer ==
    /\ lastReadIndex \in 0 .. (DELAY_BUFFER_SIZE - 1)
    /\ \A index \in 0 .. (DELAY_BUFFER_SIZE - 1) :
           \A delayTime \in SmoothedDelayTimes \cup {-2147483647, 2147483647} :
               ReadIndex(index, delayTime) \in 0 .. (DELAY_BUFFER_SIZE - 1)

\* C9: a read with a smoothed delay time beyond the buffer, with the write
\* cursor at 0, has gone through the underflow branch
C9_ReadBeyondBuffer ==
    /\ t1Pc = "clear"
    /\ delayTimeLowPassFilter.previousOutput > TimeOne
    /\ delayBufferIndex = 1
    /\ lastReadIndex = 0

\* C10, as stated: with delayFeedback = 0, no delay filter and the delay
\* settled at d = round(delayTime * SAMPLE_FREQUENCY) samples, the unit impulse
\* that enters the delay stage at sample 1 is in the output of the stage at
\* sample 1 + d and at no other sample
C10_ImpulseInOutputAfterDelay ==
    (synthesiserParameters.delayFeedback = 0) =>
        \A k \in 1 .. Len(computed) :
            computed[k].output =
                IF k = 1 + (2 * synthesiserParameters.delayTime + TimeOne \div SAMPLE_FREQUENCY)
                               \div (2 * (TimeOne \div SAMPLE_FREQUENCY))
                THEN One ELSE 0

\* C10, amended: with no delay filter and the delay settled, the output of
\* the stage is its input plus delayFeedback times the sample read from the
\* buffer; with delayFeedback = 0 the read returns the impulse at sample
\* 1 + d and at no other sample, d = delayTime * SAMPLE_FREQUENCY truncated,
\* and the output holds the impulse at sample 1 only
C10_ImpulseReadAfterDelay ==
    \A k \in 1 .. Len(computed) :
        /\ computed[k].input = (IF k = 1 THEN One ELSE 0)
        /\ computed[k].output =
               computed[k].input + Mul(synthesiserParameters.delayFeedback, computed[k].delayed)
        /\ (synthesiserParameters.delayFeedback = 0) =>
               /\ computed[k].delayed =
                      IF k = 1 + synthesiserParameters.delayTime \div (TimeOne \div SAMPLE_FREQUENCY)
                      THEN One ELSE 0
               /\ computed[k].output = (IF k = 1 THEN One ELSE 0)

\* C10: with a delay of 1.5 sample periods and no feedback, the impulse was in
\* the output at sample 1, was read back at sample 2 and left the output of
\* samples 2 and 3 at 0.0
C10_ImpulseReadBack ==
    /\ synthesiserParameters.delayFeedback = 0
    /\ synthesiserParameters.delayTime = 3
    /\ delayBufferIndex = 0
    /\ Len(computed) >= 3
    /\ computed[1].output = One
    /\ computed[2].delayed = One
    /\ computed[2].output = 0
    /\ computed[3].output = 0

\* C11, as stated: every output of a compute phase is in [-1, 1]
C11_OutputWithinUnit ==
    \A k \in 1 .. Len(computed) :
        -One <= computed[k].output /\ computed[k].output <= One

\* C11, amended: with no delay filter or the low-pass delay filter, a dry
\* signal in [-0.25, 0.25] and delayFeedback in [0, 1], every entry of the
\* delay buffer is in [-1.25, 1.25] and every output of a compute phase is
\* within 0.25 + 1.25 * delayFeedback of zero, at most 1.5; the sum is not
\* clamped, and DacWriteBuffer clamps it to full scale
C11_OutputWithinHeadroom ==
    /\ \A i \in DOMAIN delayBuffer : Abs(delayBuffer[i]) <= 5 * (One \div 4)
    /\ \A k \in 1 .. Len(computed) :
           /\ Abs(computed[k].output)
                  <= One \div 4 + Mul(synthesiserParameters.delayFeedback, 5 * (One \div 4))
           /\ Abs(computed[k].output) <= 3 * (One \div 2)
           /\ Abs(DacCode(computed[k].output)) <= DAC_FULL_SCALE

\* C11: with full feedback and no delay filter, a dry sample of 0.25 was added
\* to a delayed sample of 1.25 read from the buffer: the output is 1.5
C11_OutputAboveUnit ==
    /\ t1Pc = "clear"
    /\ synthesiserParameters.delayFeedback = One
    /\ synthesiserParameters.delayFilterType = "DelayFilterTypeNone"
    /\ Len(computed) >= 2
    /\ computed[2].input = One \div 4
    /\ computed[2].delayed = 5 * (One \div 4)
    /\ computed[2].output = 3 * (One \div 2)

\* C12: a CascadeFilter set to one stage and a FirstOrderFilter set to the
\* same corner frequency, sample frequency and pass mode, both zeroed before,
\* return the same value for every sequence of inputs, and the first stage
\* of the cascade is in the state of the single filter
C12_OneStageCascadeIsTheFilter ==
    requestedStages = 1 =>
        /\ cascadeReturned = singleReturned
        /\ cascade.firstOrderFilter[0] = single

\* C12: a high-pass pair has been updated twice and both returned the same
\* non-zero value
C12_PairUpdated ==
    /\ requestedStages = 1
    /\ calls >= 2
    /\ single.isHighPass
    /\ singleReturned # 0
    /\ cascadeReturned = singleReturned

\* C13: for every stage count asked for, CascadeFilterSetCornerFrequency
\* stores min(max(n, 1), 3) of its unsigned value, and every index below the
\* stored count, the indices CascadeFilterUpdate visits, is inside the array
C13_StageCountClamped ==
    /\ cascade.numberOfFilters =
           (IF requestedStages = 0 THEN 1
            ELSE IF requestedStages \in 1 .. 3 THEN requestedStages
            ELSE 3)
    /\ \A index \in 0 .. (2 * MAXIMUM_NUMBER_OF_CASCADED_FILTERS) :
           UnsignedLess(index, cascade.numberOfFilters) =>
               index \in DOMAIN cascade.firstOrderFilter

\* C13: a cascade asked for 0xFFFFFFFF stages has been updated and its third
\* stage, the last of the array, has filtered a non-zero sample
C13_ThreeStagesUpdated ==
    /\ requestedStages = -1
    /\ calls >= 1
    /\ cascade.numberOfFilters = 3
    /\ cascade.firstOrderFilter[2].previousInput # 0

\* The VCO waveform is about to be computed for this waveform and a frequency
\* of this set
AtVco(waveforms, frequencies) ==
    /\ t1Pc = "vco"
    /\ synthesiserParameters.vcoWaveform \in waveforms
    /\ vcoModulatedFrequency \in frequencies

\* C14: for every frequency below MINIMUM_FREQUENCY, zero and negative ones
\* included, the triangle, square and sawtooth waves take the branch that
\* neither divides by the frequency nor reads a table, and return
\* 1 - 4p (p < 0.5) or 4p - 3, 1 (p < 0.5) or -1, and 1 - 2p of the phase p
C14_ClosedFormBelowMinimum ==
    [][\A frequency \in {f \in VcoFrequencies : f < MINIMUM_FREQUENCY} :
          /\ BandwidthLimitedBranch(frequency) = "unlimited"
          /\ AtVco({"VcoWaveformTriangle"}, {frequency}) =>
                 output' = IF 2 * vcoPeriodClock < PhaseOne
                           THEN TruncDiv((PhaseOne \div 4 - vcoPeriodClock) * One, PhaseOne \div 4)
                           ELSE TruncDiv((vcoPeriodClock - 3 * (PhaseOne \div 4)) * One,
                                         PhaseOne \div 4)
          /\ AtVco({"VcoWaveformSquare"}, {frequency}) =>
                 output' = IF 2 * vcoPeriodClock < PhaseOne THEN One ELSE -One
          /\ AtVco({"VcoWaveformSawtooth"}, {frequency}) =>
                 output' = One - TruncDiv(vcoPeriodClock * One, PhaseOne \div 2)]_vars

\* C14: the triangle wave at frequency 0 and phase 0.375 has returned -0.5
C14_TriangleAtZeroFrequency ==
    /\ t1Pc = "gate"
    /\ synthesiserParameters.vcoWaveform = "VcoWaveformTriangle"
    /\ vcoModulatedFrequency = 0
    /\ vcoPeriodClock = 3 * (PhaseOne \div 8)
    /\ output = -(One \div 2)

\* C15: for every frequency from MAXIMUM_FREQUENCY up and every phase, the
\* triangle, sawtooth, square and pulse waves return what WaveformsSine
\* returns for that phase
C15_SineFromMaximum ==
    [][AtVco({"VcoWaveformTriangle", "VcoWaveformSawtooth", "VcoWaveformSquare",
              "VcoWaveformPulse"},
             {f \in VcoFrequencies : f >= MAXIMUM_FREQUENCY}) =>
           output' = WaveformsSine(vcoPeriodClock)]_vars

\* C15: the pulse wave at MAXIMUM_FREQUENCY and phase 0.25 has returned 1.0,
\* the sine of that phase
C15_PulseAtMaximum ==
    /\ t1Pc = "gate"
    /\ synthesiserParameters.vcoWaveform = "VcoWaveformPulse"
    /\ vcoModulatedFrequency = MAXIMUM_FREQUENCY
    /\ vcoPeriodClock = PhaseOne \div 4 + MAXIMUM_FREQUENCY
    /\ output = One

\* The frequencies for which a table of the family is read
TableFrequencies ==
    {f \in VcoFrequencies : MINIMUM_FREQUENCY <= f /\ f < MAXIMUM_FREQUENCY}

\* C16: for every frequency from MINIMUM_FREQUENCY up to and excluding
\* MAXIMUM_FREQUENCY the triangle and square waves interpolate the table of
\* index clamp((harmonic - 1) / 2 - 1, 0, tableCount - 1), where harmonic is
\* floor(MAXIMUM_FREQUENCY / frequency) and the clamp is the one of the
\* integers: index 0 for harmonic 1 and 2
C16_OddHarmonicTableIndex ==
    [][\A frequency \in TableFrequencies :
          LET harmonic == MAXIMUM_FREQUENCY \div frequency
              index(tableCount) == CLAMP(((harmonic - 1) \div 2) - 1, 0, tableCount - 1)
          IN  /\ AtVco({"VcoWaveformTriangle"}, {frequency}) =>
                     output' = InterpolateWaveformTable(
                                   triangleTable[index(NUMBER_OF_TRIANGLE_WAVEFORMS)],
                                   vcoPeriodClock)
              /\ AtVco({"VcoWaveformSquare"}, {frequency}) =>
                     output' = InterpolateWaveformTable(
                                   squareTable[index(NUMBER_OF_SQUARE_WAVEFORMS)],
                                   vcoPeriodClock)]_vars

\* C17: for every frequency from MINIMUM_FREQUENCY up to and excluding
\* MAXIMUM_FREQUENCY the sawtooth and pulse waves interpolate the table of
\* index clamp(harmonic - 2, 0, tableCount - 1), where harmonic is
\* floor(MAXIMUM_FREQUENCY / frequency) and the clamp is the one of the
\* integers: index 0 for harmonic 1 and 2
C17_HarmonicTableIndex ==
    [][\A frequency \in TableFrequencies :
          LET harmonic == MAXIMUM_FREQUENCY \div frequency
              index(tableCount) == CLAMP(harmonic - 2, 0, tableCount - 1)
          IN  /\ AtVco({"VcoWaveformSawtooth"}, {frequency}) =>
                     output' = InterpolateWaveformTable(
                                   sawtoothTable[index(NUMBER_OF_SAWTOOTH_WAVEFORMS)],
                                   vcoPeriodClock)
              /\ AtVco({"VcoWaveformPulse"}, {frequency}) =>
                     output' = InterpolateWaveformTable(
                                   pulseTable[index(NUMBER_OF_PULSE_WAVEFORMS)],
                                   vcoPeriodClock)]_vars

\* The value returned by the call before call k; 1.0 before the first call
PreviouslyReturned(k) == IF k = 1 THEN One ELSE noiseHistory[k - 1].returned

\* C18 as stated: with a constant frequency whose floor(sampleRate / frequency)
\* is at least 1, the shift register steps on the calls whose number is a
\* multiple of floor(sampleRate / frequency) and on no other, and every
\* other call returns the value returned before it
C18_StepsEveryInterval ==
    (noiseFrequency > 0 /\ noiseFrequency <= SAMPLE_FREQUENCY) =>
        \A k \in 1 .. Len(noiseHistory) :
            /\ noiseHistory[k].stepped = (k % (SAMPLE_FREQUENCY \div noiseFrequency) = 0)
            /\ ~noiseHistory[k].stepped => noiseHistory[k].returned = PreviouslyReturned(k)

\* C18: with a constant frequency above 0 the shift register steps on the
\* calls whose number is a multiple of floor(sampleRate / frequency) + 1 and
\* on no other, and every other call returns the value returned before it
C18_StepsEveryIntervalPlusOne ==
    noiseFrequency > 0 =>
        \A k \in 1 .. Len(noiseHistory) :
            /\ noiseHistory[k].stepped = (k % (SAMPLE_FREQUENCY \div noiseFrequency + 1) = 0)
            /\ noiseHistory[k].quotient = "InRange"
            /\ ~noiseHistory[k].stepped => noiseHistory[k].returned = PreviouslyReturned(k)

\* C18: at a third of the sample frequency the register has stepped on the
\* fourth and on the eighth call, and the output has changed on the eighth
C18_SteppedTwice ==
    /\ noiseFrequency = SAMPLE_FREQUENCY \div 3
    /\ Len(noiseHistory) = 8
    /\ noiseHistory[4].stepped
    /\ noiseHistory[8].stepped
    /\ noiseHistory[7].returned = One
    /\ noiseHistory[8].returned = -One

\* C19 as stated: at half the sample frequency every call returns the
\* negation of what the call before it returned
C19_TogglesEveryCall ==
    noiseFrequency = SAMPLE_FREQUENCY \div 2 =>
        \A k \in 2 .. Len(noiseHistory) :
            noiseHistory[k].returned = -noiseHistory[k - 1].returned

\* C19: at half the sample frequency the output can change on every third
\* call only, where it becomes 1.0 for a 1 shifted out of the register and
\* -1.0 for a 0; from the seed 0xACE1 the bits are 1, 0, 0, 0, so the calls
\* return 1.0 five times and -1.0 from the sixth call on
C19_HeldForThreeCalls ==
    noiseFrequency = SAMPLE_FREQUENCY \div 2 =>
        \A k \in 1 .. Len(noiseHistory) :
            /\ k % 3 # 0 => noiseHistory[k].returned = PreviouslyReturned(k)
            /\ k <= 12 => noiseHistory[k].returned = IF k < 6 THEN One ELSE -One

\* C19: at half the sample frequency the fifth and the sixth call have
\* returned 1.0 and -1.0, the fourth and the fifth 1.0 both
C19_ChangedOnSixthCall ==
    /\ noiseFrequency = SAMPLE_FREQUENCY \div 2
    /\ Len(noiseHistory) >= 6
    /\ noiseHistory[4].returned = One
    /\ noiseHistory[5].returned = One
    /\ noiseHistory[6].stepped
    /\ noiseHistory[6].returned = -One

\* C20: with frequency 0 or negative no call divides by zero or converts a
\* value out of the range of unsigned int, no call steps the shift register,
\* and every call returns the last output, 1.0 from the initial statics
C20_HoldsAtZeroOrNegative ==
    noiseFrequency <= 0 =>
        \A k \in 1 .. Len(noiseHistory) :
            /\ noiseHistory[k].quotient = "InRange"
            /\ ~noiseHistory[k].stepped
            /\ noiseHistory[k].returned = One

\* C21 as stated: the square LFO of 1 Hz with shape 0.5, started at phase 0,
\* is -1.0 on the samples n with n mod 96000 in 0 .. 47999 and 1.0 on the
\* others
C21_SquareHalvesOfEqualLength ==
    (synthesiserParameters = SquareOneHertz /\ t1Pc = "vco") =>
        lfoWaveform = IF samples % SAMPLE_FREQUENCY < SAMPLE_FREQUENCY \div 2 THEN -One ELSE One

\* C21: that LFO is -1.0 on samples 0 .. 47999 and 1.0 on samples
\* 48000 .. 96000: sample 96000 is evaluated at phase 1.0, which is not
\* wrapped, and sample n >= 1 at phase (((n - 1) mod 96000) + 1) / 96000, so
\* that from sample 1 on the pattern repeats with period 96000 and is -1.0
\* for n mod 96000 in 1 .. 47999
C21_SquareWrapsAboveOne ==
    synthesiserParameters = SquareOneHertz =>
        /\ t1Pc = "lfo" =>
               lfoPeriodClock = IF samples = 0 THEN 0
                                ELSE ((samples - 1) % SAMPLE_FREQUENCY) + 1
        /\ t1Pc = "vco" =>
               lfoWaveform = IF samples = 0 \/ (samples % SAMPLE_FREQUENCY \in
                                                   1 .. (SAMPLE_FREQUENCY \div 2 - 1))
                             THEN -One ELSE One

\* C21: sample 96000 has been evaluated at phase 1.0 and is 1.0
C21_SampleAtPhaseOne ==
    /\ synthesiserParameters = SquareOneHertz
    /\ t1Pc = "vco"
    /\ samples = SAMPLE_FREQUENCY
    /\ lfoEvaluatedAt = PhaseOne
    /\ lfoWaveform = One

\* C22 as stated: the LFO closes the gate in a compute phase exactly when LFO
\* gate control is enabled and the phase before this sample's advance is at
\* least 1 - 0.01 * lfoFrequency
C22_GateClosedOnPhaseBeforeAdvance ==
    [][t1Pc = "lfo" =>
           gate' = IF /\ synthesiserParameters.lfoGateControl
                      /\ lfoPeriodClock >=
                             PhaseOne - (PhaseOne \div 100) * synthesiserParameters.lfoFrequency
                   THEN FALSE ELSE gate]_vars

\* C22: the LFO closes the gate in a compute phase exactly when LFO gate
\* control is enabled and the phase after this sample's advance, before its
\* wrap, is at least 1 - 0.01 * lfoFrequency
C22_GateClosedOnAdvancedPhase ==
    [][t1Pc = "lfo" =>
           gate' = IF /\ synthesiserParameters.lfoGateControl
                      /\ lfoPeriodClock + synthesiserParameters.lfoFrequency >=
                             PhaseOne - (PhaseOne \div 100) * synthesiserParameters.lfoFrequency
                   THEN FALSE ELSE gate]_vars

\* C22: the gated LFO of 5 Hz has closed the gate in the sample evaluated one
\* step before the phase 1 - 0.01 * lfoFrequency
C22_ClosedOneStepEarlier ==
    /\ synthesiserParameters = SlowGated
    /\ t1Pc = "vco"
    /\ lfoEvaluatedAt = PhaseOne - (PREEMPTIVE_GATE_PERIOD + 1) * SlowGated.lfoFrequency
    /\ ~gate

\* C23: a step of SynthesiserSetParameters, SynthesiserTrigger,
\* SynthesiserSetGate or SynthesiserGetGate leaves the LFO and VCO phases, the
\* filters, the delay buffer, its write cursor and the active snapshot as they
\* are; SynthesiserSetParameters writes the pending snapshot and its flag
\* only, SynthesiserTrigger the trigger flag only, SynthesiserSetGate the gate
\* only, SynthesiserGetGate none of them
C23_ControlWritesItsFlagsOnly ==
    [][(<<mainPc, copyIndex>>' # <<mainPc, copyIndex>>) =>
           /\ UNCHANGED <<synthesiserParameters, dspVars>>
           /\ mainPc \in {"setParameters", "copy", "publish"} => UNCHANGED <<trigger, gate>>
           /\ mainPc = "trigger" =>
                  /\ trigger'
                  /\ UNCHANGED <<pendingSynthesiserParameters,
                                 newSynthesiserParametersPending, gate>>
           /\ mainPc = "setGate" =>
                  UNCHANGED <<pendingSynthesiserParameters,
                              newSynthesiserParametersPending, trigger>>
           /\ mainPc \in {"initialise", "tasks", "getGate"} => UNCHANGED synthVars]_vars

\* C23: SynthesiserTrigger has returned between two compute phases, with both
\* phases advanced, the delay cursor moved and the gate filter risen
C23_TriggeredBetweenSamples ==
    /\ mainPc = "setParameters"
    /\ uiTrigger
    /\ trigger
    /\ t1Pc = "idle"
    /\ lfoPeriodClock > 0
    /\ vcoPeriodClock > 0
    /\ delayBufferIndex > 0
    /\ gateGainLowPassFilter.previousOutput > 0

\* C24: while no compute phase has outlasted its sample period, the values
\* written to SPI1BUF are two zeros followed by the clamped and scaled outputs
\* of the compute phases, one each, in the order they were computed: write k
\* is the output of compute phase k - 2, which is complete by then, and
\* compute phases run in successive sample periods
C24_WrittenIsComputedInOrder ==
    ~overrun =>
        /\ \A k \in 1 .. Len(written) :
               IF k <= 2 THEN written[k] = 0
               ELSE /\ k - 2 <= Len(computed)
                    /\ written[k] = DacCode(computed[k - 2].output)
        /\ \A n \in 1 .. Len(computed) : computed[n].period = n
        /\ Len(computed) <= Len(written)

\* C24: three compute phases with three different outputs have ended in
\* their sample periods, and the third write is the first of these outputs
C24_ThreeInOrder ==
    /\ ~overrun
    /\ Len(written) = 3
    /\ Len(computed) = 3
    /\ computed[1].output # computed[2].output
    /\ computed[2].output # computed[3].output
    /\ computed[1].output # computed[3].output
    /\ computed[1].output # 0
    /\ written = <<0, 0, DacCode(computed[1].output)>>

\* C25: whenever the control loop is not inside SynthesiserSetParameters and
\* the pending flag is clear, the active snapshot is the snapshot of the last
\* call that returned (the defaults before any call); and a compute phase that
\* clears the pending flag has copied the snapshot whose publication set it
C25_NoPublicationLost ==
    /\ []((mainPc \notin {"copy", "publish"} /\ ~newSynthesiserParametersPending) =>
              synthesiserParameters = lastPublished)
    /\ [][(newSynthesiserParametersPending /\ ~newSynthesiserParametersPending'
               /\ t1Pc = "parameters") =>
              synthesiserParameters' = lastPublished]_vars

\* C26: the compute phase that runs before any call of
\* SynthesiserSetParameters has adopted the defaults; after its adoption step
\* no compute phase has the zero-initialised structure as its active snapshot,
\* and the delay filter has 3 stages whenever the delay stage may update it
C26_DefaultsAdoptedFirst ==
    t1Pc \in AfterAdoption =>
        /\ synthesiserParameters # ZeroParameters
        /\ published = {} => synthesiserParameters = DEFAULT_SYTHESISER_PARAMETERS
        /\ delayFilter.numberOfFilters = 3

\* C26: the first compute phase is at its delay stage with the defaults
\* adopted and the delay filter configured
C26_FirstSampleWithDefaults ==
    /\ samples = 0
    /\ t1Pc = "delay"
    /\ published = {}
    /\ synthesiserParameters = DEFAULT_SYTHESISER_PARAMETERS
    /\ delayFilter.numberOfFilters = 3
    /\ delayFilter.firstOrderFilter[0].coefficient > 0


\* C27: the trigger flag is set exactly when SynthesiserTrigger has been called
\* since the last compute phase began, however often; the trigger block of a
\* compute phase that follows such calls resets the LFO phase, opens the gate
\* and clears the flag, the trigger block of any other compute phase changes
\* none of the three, and nothing else clears the flag
C27_TriggerConsumedOnce ==
    /\ [](trigger = IF t1Pc \in {"parameters", "trigger"} THEN sampleTriggered
                    ELSE triggerCalled)
    /\ [][/\ (t1Pc = "trigger" /\ t1Pc' = "lfo") =>
               IF sampleTriggered
               THEN trigger /\ ~trigger' /\ lfoPeriodClock' = 0 /\ gate'
               ELSE ~trigger /\ UNCHANGED <<trigger, lfoPeriodClock, gate>>
           /\ (trigger /\ ~trigger') => t1Pc = "trigger"]_vars

\* C27: two passes of the control loop ran between the first and the second
\* compute phase and called SynthesiserTrigger; the trigger block of the
\* second compute phase has reset the phase the first had advanced, set the
\* gate and cleared the flag
C27_ConsumedAfterTwoPasses ==
    /\ sampleTriggered
    /\ t1Pc = "lfo"
    /\ samples = 1
    /\ passes = 2
    /\ mainPc = "tasks"
    /\ ~trigger
    /\ lfoPeriodClock = 0
    /\ gate

\* C28: the gate goes from closed to open only in the trigger block of a
\* compute phase with a pending trigger or in SynthesiserSetGate(true), so a
\* gate closed by the LFO stays closed until one of the two; and a statement
\* of a compute phase changes the gate only in the trigger block with a
\* pending trigger or in the LFO block with LFO gate control enabled
C28_ClosedUntilTriggerOrSetGate ==
    [][/\ (~gate /\ gate') =>
               \/ t1Pc = "trigger" /\ t1Pc' = "lfo" /\ trigger
               \/ mainPc = "setGate" /\ mainPc' # "setGate" /\ ~uiGate
       /\ (/\ t1Pc' # t1Pc
           /\ ~(t1Pc = "trigger" /\ trigger)
           /\ ~(t1Pc = "lfo" /\ synthesiserParameters.lfoGateControl)) =>
               gate' = gate]_vars

\* C28: the second compute phase consumed a trigger and ran the LFO of the
\* fast gated snapshot from phase 0, so its LFO block closed the gate; the
\* third has adopted the slow gated snapshot, its test of line 149 is false
\* and the gate is still closed
C28_StillClosedInNextSample ==
    /\ t1Pc = "vco"
    /\ samples = 2
    /\ synthesiserParameters = SlowGated
    /\ ~sampleTriggered
    /\ lfoEvaluatedAt = FastGated.lfoFrequency
    /\ ~LfoClosesGate(SlowGated, lfoEvaluatedAt)
    /\ ~gate


\* C29: when SynthesiserSetGate stores the toggled value, the gate still has
\* the value SynthesiserGetGate read for it: no compute phase has written
\* another value between the read and the write of the toggle
C29_ToggleFromCurrentGate ==
    [][(mainPc = "setGate" /\ mainPc' # "setGate") => gate = uiGate]_vars

\* C30: a compute phase that consumes the trigger of a pass still on its way
\* to publishing (SynthesiserTrigger has returned, SynthesiserSetParameters
\* has not) already has the snapshot of that pass as its active snapshot
C30_TriggerWithItsSnapshot ==
    [][(/\ t1Pc = "trigger" /\ t1Pc' = "lfo" /\ trigger
        /\ uiTrigger /\ mainPc \in {"setParameters", "copy", "publish"}) =>
           synthesiserParameters = uiParameters]_vars


\* C31, as stated: with the delay settled at d samples, 1 <= d <= capacity,
\* the sample read in compute phase k is what compute phase k - d left in the
\* buffer, its dry sample plus the clamped feedback sample it mixed in
C31_ReadsContentOfEarlierTick ==
    LET d == CLAMP(DelaySamples(synthesiserParameters.delayTime), 0, DELAY_BUFFER_SIZE)
    IN  \A k \in 1 .. Len(computed) :
            (1 <= d /\ d <= DELAY_BUFFER_SIZE /\ k - d >= 1) =>
                computed[k].delayed =
                    computed[k - d].input
                        + CLAMP(computed[k - d].output - computed[k - d].input, -One, One)

\* C31 for delays inside the buffer: the same with 1 <= d <= capacity - 1;
\* and a delay of the whole capacity reads the dry sample that the same
\* compute phase has just written at the write cursor
C31_ReadsContentInsideBuffer ==
    LET d == CLAMP(DelaySamples(synthesiserParameters.delayTime), 0, DELAY_BUFFER_SIZE)
    IN  \A k \in 1 .. Len(computed) :
            /\ (1 <= d /\ d <= DELAY_BUFFER_SIZE - 1 /\ k - d >= 1) =>
                   computed[k].delayed =
                       computed[k - d].input
                           + CLAMP(computed[k - d].output - computed[k - d].input, -One, One)
            /\ d = DELAY_BUFFER_SIZE => computed[k].delayed = computed[k].input


\* C32: after the feedback mix of a compute phase the slot it wrote and mixed
\* at holds a value in [-1, 1], in every run in which every sample read from
\* the buffer so far was in [-1, 1]
C32_MixedSlotWithinUnit ==
    (/\ t1Pc = "clear"
     /\ \A k \in 1 .. Len(computed) : Abs(computed[k].delayed) <= One) =>
        Abs(delayBuffer[(delayBufferIndex + DELAY_BUFFER_SIZE - 1) % DELAY_BUFFER_SIZE]) <= One


\* C33: the write cursor is in [0, capacity - 1] in every state; the delay
\* stage of a compute phase stores the dry sample plus the clamped feedback
\* sample in the slot at the cursor, leaves every other slot as it was and
\* advances the cursor by one modulo the capacity; no other step changes the
\* buffer or the cursor
C33_CursorAdvancesByOne ==
    /\ [](delayBufferIndex \in 0 .. (DELAY_BUFFER_SIZE - 1))
    /\ [][IF t1Pc = "delay" /\ t1Pc' = "clear"
          THEN /\ delayBufferIndex' = (delayBufferIndex + 1) % DELAY_BUFFER_SIZE
               /\ DOMAIN delayBuffer' = 0 .. (DELAY_BUFFER_SIZE - 1)
               /\ \A i \in 0 .. (DELAY_BUFFER_SIZE - 1) :
                      delayBuffer'[i] =
                          IF i = delayBufferIndex
                          THEN output + CLAMP(output' - output, -One, One)
                          ELSE delayBuffer[i]
          ELSE UNCHANGED <<delayBuffer, delayBufferIndex>>]_vars

\* C33: one more compute phase than the buffer has slots has run and the
\* cursor has wrapped to 0: the slot written by the first compute phase has
\* been overwritten by the last
C33_WrappedOnce ==
    /\ t1Pc = "clear"
    /\ Len(computed) = DELAY_BUFFER_SIZE + 1
    /\ delayBufferIndex = 0
    /\ computed[1].input # computed[DELAY_BUFFER_SIZE + 1].input
    /\ delayBuffer[DELAY_BUFFER_SIZE - 1] =
           computed[DELAY_BUFFER_SIZE + 1].input
               + CLAMP(computed[DELAY_BUFFER_SIZE + 1].output
                           - computed[DELAY_BUFFER_SIZE + 1].input, -One, One)


\* C34: in every compute phase the LFO value is the LFO waveform at the phase
\* held before the LFO advance of this sample, the LFO phase after it is that
\* phase plus lfoFrequency / SAMPLE_FREQUENCY, wrapped; the VCO output is the
\* VCO waveform at the phase held before the VCO advance, and the VCO phase
\* advances by (vcoFrequency + lfoAmplitude * lfoValue) / SAMPLE_FREQUENCY with
\* that LFO value and the snapshot adopted for this sample
C34_EvaluatedBeforeAdvance ==
    [][/\ (t1Pc \in {"trigger", "lfo", "vco"} /\ t1Pc' # t1Pc) =>
              UNCHANGED synthesiserParameters
       /\ (t1Pc = "vco" /\ t1Pc' = "gate") =>
           LET lfoValue == LfoWaveformValue(synthesiserParameters, lfoEvaluatedAt)
               modulated == synthesiserParameters.vcoFrequency
                                + TruncDiv(synthesiserParameters.lfoAmplitude * lfoValue, One)
           IN  /\ lfoWaveform = lfoValue
               /\ lfoPeriodClock =
                      WaveformsLimitNormalisedPeriod(
                          lfoEvaluatedAt + synthesiserParameters.lfoFrequency)
               /\ vcoModulatedFrequency = modulated
               /\ synthesiserParameters.vcoWaveform = "VcoWaveformSine" =>
                      output' = WaveformsSine(vcoPeriodClock)
               /\ vcoPeriodClock' = WaveformsLimitNormalisedPeriod(vcoPeriodClock + modulated)]_vars

\* C34: a compute phase with a modulating LFO is past its VCO: the LFO value
\* is not 0, the LFO phase has moved on from the phase it was evaluated at and
\* the VCO frequency is not the unmodulated one
C34_ModulatedSample ==
    /\ t1Pc = "gate"
    /\ samples >= 1
    /\ synthesiserParameters = Falling
    /\ lfoWaveform # 0
    /\ lfoWaveform = LfoWaveformValue(synthesiserParameters, lfoEvaluatedAt)
    /\ lfoWaveform # LfoWaveformValue(synthesiserParameters, lfoPeriodClock)
    /\ vcoModulatedFrequency # synthesiserParameters.vcoFrequency
    /\ output # 0


\* C35: for every frequency from MINIMUM_FREQUENCY up to and excluding
\* MAXIMUM_FREQUENCY, each of the four band-limited waves reads the table of
\* an index in [0, tableCount - 1] of its family: the index is
\* min(v, tableCount - 1) of v = (harmonic - 1) / 2 - 1 (triangle, square) or
\* v = harmonic - 2 (sawtooth, pulse), and tableCount - 1 where the unsigned
\* subtraction wraps around (v below 0 as an integer)
C35_TableIndexInRange ==
    [][\A frequency \in TableFrequencies :
          LET harmonic == MAXIMUM_FREQUENCY \div frequency
              index(v, tableCount) == IF v < 0 THEN tableCount - 1 ELSE MIN(v, tableCount - 1)
              odd(tableCount) == index(((harmonic - 1) \div 2) - 1, tableCount)
              all(tableCount) == index(harmonic - 2, tableCount)
          IN  /\ odd(NUMBER_OF_TRIANGLE_WAVEFORMS) \in DOMAIN triangleTable
              /\ odd(NUMBER_OF_SQUARE_WAVEFORMS) \in DOMAIN squareTable
              /\ all(NUMBER_OF_SAWTOOTH_WAVEFORMS) \in DOMAIN sawtoothTable
              /\ all(NUMBER_OF_PULSE_WAVEFORMS) \in DOMAIN pulseTable
              /\ AtVco({"VcoWaveformTriangle"}, {frequency}) =>
                     output' = InterpolateWaveformTable(
                                   triangleTable[odd(NUMBER_OF_TRIANGLE_WAVEFORMS)],
                                   vcoPeriodClock)
              /\ AtVco({"VcoWaveformSquare"}, {frequency}) =>
                     output' = InterpolateWaveformTable(
                                   squareTable[odd(NUMBER_OF_SQUARE_WAVEFORMS)], vcoPeriodClock)
              /\ AtVco({"VcoWaveformSawtooth"}, {frequency}) =>
                     output' = InterpolateWaveformTable(
                                   sawtoothTable[all(NUMBER_OF_SAWTOOTH_WAVEFORMS)],
                                   vcoPeriodClock)
              /\ AtVco({"VcoWaveformPulse"}, {frequency}) =>
                     output' = InterpolateWaveformTable(
                                   pulseTable[all(NUMBER_OF_PULSE_WAVEFORMS)], vcoPeriodClock)]_vars

\* C35: the sawtooth wave at MAXIMUM_FREQUENCY - 1 (harmonic 1, harmonic - 2
\* wrapped around) and phase 0.25 has returned the entry of the last table of
\* its family
C35_SawtoothWrappedIndex ==
    /\ t1Pc = "gate"
    /\ synthesiserParameters.vcoWaveform = "VcoWaveformSawtooth"
    /\ vcoModulatedFrequency = MAXIMUM_FREQUENCY - 1
    /\ vcoPeriodClock = PhaseOne \div 4 + MAXIMUM_FREQUENCY - 1
    /\ HarmonicWaveformIndex(vcoModulatedFrequency, NUMBER_OF_SAWTOOTH_WAVEFORMS)
           = NUMBER_OF_SAWTOOTH_WAVEFORMS - 1
    /\ output = InterpolateWaveformTable(
                    sawtoothTable[NUMBER_OF_SAWTOOTH_WAVEFORMS - 1], PhaseOne \div 4)
    /\ output # InterpolateWaveformTable(sawtoothTable[0], PhaseOne \div 4)


\* C36: for every phase in [0, 1] the sine wave returned by the table
\* interpolation depends on the entries at floor(phase * (N - 1)) and
\* ceil(phase * (N - 1)) only, both indices in [0, N - 1]; it is the entry
\* itself when phase * (N - 1) is an integer and otherwise lies between the
\* two entries
C36_InterpolatesFloorAndCeil ==
    [][(AtVco({"VcoWaveformSine"}, VcoFrequencies)
            /\ 0 <= vcoPeriodClock /\ vcoPeriodClock <= PhaseOne) =>
           LET scaled == vcoPeriodClock * (WAVEFORM_TABLE_LENGTH - 1)
               indexFloor == scaled \div PhaseOne
               indexCeil == IF scaled % PhaseOne = 0 THEN indexFloor ELSE indexFloor + 1
           IN  /\ Len(sineTable) = WAVEFORM_TABLE_LENGTH
               /\ indexFloor \in 0 .. (WAVEFORM_TABLE_LENGTH - 1)
               /\ indexCeil \in 0 .. (WAVEFORM_TABLE_LENGTH - 1)
               /\ \A other \in (0 .. (WAVEFORM_TABLE_LENGTH - 1)) \ {indexFloor, indexCeil} :
                      \A entry \in {-One, One \div 3} :
                          InterpolateWaveformTable(
                              [sineTable EXCEPT ![other + 1] = entry], vcoPeriodClock) = output'
               /\ IF indexFloor = indexCeil
                  THEN output' = sineTable[indexFloor + 1]
                  ELSE /\ MIN(sineTable[indexFloor + 1], sineTable[indexCeil + 1]) <= output'
                       /\ output' <= MAX(sineTable[indexFloor + 1], sineTable[indexCeil + 1])]_vars

\* C36: the sine wave at phase 0.375, halfway between the entries of index 1
\* and 2 (1.0 and 0.0), has returned 0.5
C36_HalfwayBetweenEntries ==
    /\ t1Pc = "gate"
    /\ synthesiserParameters.vcoWaveform = "VcoWaveformSine"
    /\ vcoModulatedFrequency = 0
    /\ vcoPeriodClock = 3 * (PhaseOne \div 8)
    /\ output = One \div 2


\* C37: the shift register holds a non-zero 16-bit value in every state and,
\* started at 0xACE1, is back at 0xACE1 after 65535 steps and not before, so it
\* has been through every non-zero value; each step shifts right and applies
\* XOR 0xB400 when the bit shifted out is 1, and returns 1.0 when that bit is 1
\* and -1.0 when it is 0
C37_MaximalLengthRegister ==
    /\ [](/\ oneBitNoise.lfsr \in 1 .. 65535
          /\ oneBitNoise.lfsr = 44257 => calls \in {0, 65535})
    /\ [][/\ oneBitNoise'.lfsr =
                 (IF oneBitNoise.lfsr % 2 = 1
                  THEN BitXor(oneBitNoise.lfsr \div 2, 46080, 16)
                  ELSE oneBitNoise.lfsr \div 2)
           /\ oneBitNoise'.returnValue = (IF oneBitNoise.lfsr % 2 = 1 THEN One ELSE -One)]_vars

\* C37: after 65535 steps the register is back at 0xACE1
C37_BackAtSeed ==
    /\ calls = 65535
    /\ oneBitNoise.lfsr = 44257


\* C38: the smoothed gate gain is in [0, 1] in every state; the gate stage of
\* a compute phase does not lower it when the gate is open, does not raise it
\* when the gate is closed and changes it by at most the coefficient of the
\* gate filter, which is below 1; no other step changes it; and from any gain
\* in [0, 1] one update of the gate filter with 0.0 or 1.0 does the same
C38_GateGainSmoothed ==
    /\ [](/\ 0 <= gateGain /\ gateGain <= One
          /\ 0 <= gateGainLowPassFilter.previousOutput
          /\ gateGainLowPassFilter.previousOutput <= One
          /\ gateGainLowPassFilter.coefficient < One
          /\ \A gain \in {0, 1, One \div 64, One \div 2, One - 1, One} :
                 \A input \in {0, One} :
                     LET next == FirstOrderFilterUpdate(
                                     [gateGainLowPassFilter EXCEPT !.previousOutput = gain],
                                     input).previousOutput
                     IN  /\ 0 <= next /\ next <= One
                         /\ IF input = One THEN next >= gain ELSE next <= gain
                         /\ Abs(next - gain) <= gateGainLowPassFilter.coefficient)
    /\ [][IF t1Pc = "gate" /\ t1Pc' = "delay"
          THEN /\ gateGain' = gateGainLowPassFilter'.previousOutput
               /\ IF gate THEN gateGain' >= gateGain ELSE gateGain' <= gateGain
               /\ Abs(gateGain' - gateGain) <= gateGainLowPassFilter.coefficient
          ELSE UNCHANGED <<gateGain, gateGainLowPassFilter>>]_vars

\* C38: the gate was open in the first two compute phases and closed in the
\* third: the gain has risen and then fallen, by less than the coefficient
C38_RisenThenFallen ==
    /\ t1Pc = "delay"
    /\ samples = 2
    /\ ~gate
    /\ gateGain > 0
    /\ gateGain < 2 * gateGainLowPassFilter.coefficient - 1
    /\ gateGain > gateGainLowPassFilter.coefficient
    /\ gateGainLowPassFilter.previousInput = 0


\* C39: whatever sample is handed to DacWriteBuffer, inside or outside
\* [-1, 1], the code stored in the DAC buffer is in [-0x7FFFFF, 0x7FFFFF], full
\* scale for a sample beyond it, and so is every value written to SPI1BUF
C39_DacCodeWithinFullScale ==
    /\ [](/\ -DAC_FULL_SCALE <= buffer /\ buffer <= DAC_FULL_SCALE
          /\ -DAC_FULL_SCALE <= SPI1BUF /\ SPI1BUF <= DAC_FULL_SCALE
          /\ \A k \in 1 .. Len(written) :
                 -DAC_FULL_SCALE <= written[k] /\ written[k] <= DAC_FULL_SCALE)
    /\ [][(t1Pc = "idle" /\ t1Pc' = "parameters") =>
              /\ output >= One => buffer' = DAC_FULL_SCALE
              /\ output <= -One => buffer' = -DAC_FULL_SCALE
              /\ (-One < output /\ output < One) => Abs(buffer') < DAC_FULL_SCALE]_vars

\* C39: a compute phase has handed 1.5 to DacWriteBuffer and the buffer holds
\* 0x7FFFFF
C39_ClampedToFullScale ==
    /\ t1Pc = "parameters"
    /\ samples = 0
    /\ output = 3 * (One \div 2)
    /\ buffer = DAC_FULL_SCALE

====
